---- MODULE Spec2Model ----
(***************************************************************************)
(* Model of the document resolver of eulex-build                           *)
(* (src/src/eulexbuild/data/data_resolver.py and src/src/eulexbuild/utils.py).*)
(*                                                                         *)
(* A text is a sequence of tokens.  A token is one whitespace character,   *)
(* one punctuation character, or a word: a non-empty run of characters     *)
(* that are neither whitespace nor punctuation.  The regular expressions   *)
(* of the source never split a word except where the vocabulary tables     *)
(* below say so (leading / trailing digits of a word).                     *)
(***************************************************************************)
EXTENDS Integers, Sequences, FiniteSets, TLC

(***************************************************************************)
(* Bounds of the model.                                                    *)
(***************************************************************************)
MaxCalls == 2

MaxElems == 2

MaxParas == 3

(***************************************************************************)
(* Generic helpers.                                                        *)
(***************************************************************************)
\* F applied to v: the value v is computed once and has a name in F
Bind(v, F(_)) == F(v)

NoneV == [t |-> "None"]

Str(s) == [t |-> "str", s |-> s]

List(items) == [t |-> "list", items |-> items]

RECURSIVE Concat(_)
Concat(ss) == IF ss = <<>> THEN <<>> ELSE Head(ss) \o Concat(Tail(ss))

RECURSIVE JoinWith(_, _)
JoinWith(sep, ss) ==
    IF ss = <<>> THEN <<>>
    ELSE IF Len(ss) = 1 THEN Head(ss)
    ELSE Head(ss) \o sep \o JoinWith(sep, Tail(ss))

(***************************************************************************)
(* utils.py : normalize_string                                             *)
(***************************************************************************)
WS == {" ", "\t"}

PunctAfter == {",", ";", ":", "!", "?", ".", ")", "}", "]"}

PunctBefore == {",", ";", ":", "!", "?", "."}

\* re.sub(r'([,;:!?.)}\]])(\S)', r'\1 \2', text): matches do not overlap, the
\* scan resumes after the character matched by (\S).
RECURSIVE SpaceAfterPunct(_)
SpaceAfterPunct(s) ==
    IF s = <<>> THEN <<>>
    ELSE IF Len(s) >= 2 /\ s[1] \in PunctAfter /\ s[2] \notin WS
         THEN <<s[1], " ", s[2]>> \o SpaceAfterPunct(SubSeq(s, 3, Len(s)))
         ELSE <<s[1]>> \o SpaceAfterPunct(Tail(s))

\* index of the first token of s at or after i that is not whitespace
RECURSIVE SkipWS(_, _)
SkipWS(s, i) == IF i <= Len(s) /\ s[i] \in WS THEN SkipWS(s, i + 1) ELSE i

\* re.sub(r'\s+([,;:!?.])', r'\1', text)
RECURSIVE NoSpaceBeforePunct(_)
NoSpaceBeforePunct(s) ==
    IF s = <<>> THEN <<>>
    ELSE IF s[1] \in WS
         THEN Bind(SkipWS(s, 1), LAMBDA j :
                  IF j <= Len(s) /\ s[j] \in PunctBefore
                  THEN <<s[j]>> \o NoSpaceBeforePunct(SubSeq(s, j + 1, Len(s)))
                  ELSE <<s[1]>> \o NoSpaceBeforePunct(Tail(s)))
         ELSE <<s[1]>> \o NoSpaceBeforePunct(Tail(s))

\* re.sub(r'\s+', ' ', text)
RECURSIVE CollapseWS(_)
CollapseWS(s) ==
    IF s = <<>> THEN <<>>
    ELSE IF s[1] \in WS
         THEN <<" ">> \o CollapseWS(SubSeq(s, SkipWS(s, 1), Len(s)))
         ELSE <<s[1]>> \o CollapseWS(Tail(s))

\* str.strip()
RECURSIVE LStrip(_)
LStrip(s) == IF s # <<>> /\ s[1] \in WS THEN LStrip(Tail(s)) ELSE s

RECURSIVE RStrip(_)
RStrip(s) ==
    IF s # <<>> /\ s[Len(s)] \in WS THEN RStrip(SubSeq(s, 1, Len(s) - 1)) ELSE s

Strip(s) == RStrip(LStrip(s))

normalize_string(text) ==
    Strip(CollapseWS(NoSpaceBeforePunct(SpaceAfterPunct(text))))

(***************************************************************************)
(* utils.py : identifiers.  An identifier is a sequence of characters.     *)
(***************************************************************************)
Digits == {"0", "1", "2", "3", "4", "5", "6", "7", "8", "9"}

UpperLetters ==
    {"A", "B", "C", "D", "E", "F", "G", "H", "I", "J", "K", "L", "M",
     "N", "O", "P", "Q", "R", "S", "T", "U", "V", "W", "X", "Y", "Z"}

AllIn(s, lo, hi, cls) == \A i \in lo..hi : s[i] \in cls

\* CONSOLIDATED_CELEX_PATTERN = ^(0)(\d{4}[RLD]\d{4})(-\d{8}$)
is_consolidated_celex(celex) ==
    /\ Len(celex) = 19
    /\ celex[1] = "0"
    /\ AllIn(celex, 2, 5, Digits)
    /\ celex[6] \in {"R", "L", "D"}
    /\ AllIn(celex, 7, 10, Digits)
    /\ celex[11] = "-"
    /\ AllIn(celex, 12, 19, Digits)

\* CELEX_PATTERN = ^[0-9CE][0-9]{4}[A-Z]{1,3}[0-9]{4,6}[A-Z]{0,3}[_\-]?[0-9]{0,9}$
is_valid_celex(celex) ==
    \E a \in 1..3, b \in 4..6, c \in 0..3, u \in 0..1, e \in 0..9 :
        /\ Len(celex) = 5 + a + b + c + u + e
        /\ celex[1] \in Digits \cup {"C", "E"}
        /\ AllIn(celex, 2, 5, Digits)
        /\ AllIn(celex, 6, 5 + a, UpperLetters)
        /\ AllIn(celex, 6 + a, 5 + a + b, Digits)
        /\ AllIn(celex, 6 + a + b, 5 + a + b + c, UpperLetters)
        /\ AllIn(celex, 6 + a + b + c, 5 + a + b + c + u, {"_", "-"})
        /\ AllIn(celex, 6 + a + b + c + u, 5 + a + b + c + u + e, Digits)

LowerSeq == <<"a", "b", "c", "d", "e", "f", "g", "h", "i", "j", "k", "l", "m",
             "n", "o", "p", "q", "r", "s", "t", "u", "v", "w", "x", "y", "z">>

UpperSeq == <<"A", "B", "C", "D", "E", "F", "G", "H", "I", "J", "K", "L", "M",
             "N", "O", "P", "Q", "R", "S", "T", "U", "V", "W", "X", "Y", "Z">>

UpperChar(ch) ==
    IF \E i \in 1..26 : LowerSeq[i] = ch
    THEN UpperSeq[CHOOSE i \in 1..26 : LowerSeq[i] = ch]
    ELSE ch

\* celex.strip().upper()
normalize_celex(celex) ==
    Bind(Strip(celex), LAMBDA st : [i \in 1..Len(st) |-> UpperChar(st[i])])

\* validate_celex: the normalized identifier, or ValueError
validate_celex(celex) ==
    Bind(normalize_celex(celex), LAMBDA n :
        IF is_valid_celex(n) THEN [exc |-> "none", val |-> n]
        ELSE [exc |-> "ValueError", val |-> <<>>])

\* the conversion guarded by the identifier grammar instead of the
\* consolidated pattern: a plausible slip
convert_consolidated_celex_to_original_ChecksGrammar(celex) ==
    Bind(normalize_celex(celex), LAMBDA n :
        IF ~ is_valid_celex(n) THEN [exc |-> "ValueError", val |-> <<>>]
        ELSE [exc |-> "none", val |-> <<"3">> \o SubSeq(n, 2, 10)])

\* the conversion returning the whole match: a plausible slip
convert_consolidated_celex_to_original_WholeMatch(celex) ==
    Bind(normalize_celex(celex), LAMBDA n :
        IF ~ is_consolidated_celex(n) THEN [exc |-> "ValueError", val |-> <<>>]
        ELSE [exc |-> "none", val |-> n])

\* "3" + group(2) of the consolidated pattern, or ValueError
convert_consolidated_celex_to_original(celex) ==
    Bind(normalize_celex(celex), LAMBDA n :
        IF ~ is_consolidated_celex(n) THEN [exc |-> "ValueError", val |-> <<>>]
        ELSE [exc |-> "none", val |-> <<"3">> \o SubSeq(n, 2, 10)])

(***************************************************************************)
(* Calendar dates (datetime.date) and the parsers used by get_date_adopted.*)
(* A date field that is not numeric text is NonNumeric, an absent field is *)
(* Missing.                                                                *)
(***************************************************************************)
NonNumeric == -1

Missing == -2

IsLeap(y) == (y % 4 = 0 /\ y % 100 # 0) \/ y % 400 = 0

DaysInMonth(y, m) ==
    IF m \in {4, 6, 9, 11} THEN 30
    ELSE IF m = 2 THEN (IF IsLeap(y) THEN 29 ELSE 28)
    ELSE 31

\* datetime.date(y, m, d) raises ValueError unless this holds
ValidDate(y, m, d) ==
    /\ y >= 1 /\ y <= 9999
    /\ m >= 1 /\ m <= 12
    /\ d >= 1 /\ d <= DaysInMonth(y, m)

Date(y, m, d) == [t |-> "date", y |-> y, m |-> m, d |-> d]

(***************************************************************************)
(* State.                                                                  *)
(*   celex_id  the identifier the resolver was constructed with            *)
(*   remote    what the repository answers, per resolver ("self", and      *)
(*             "orig": the resolver of the original act of a consolidated  *)
(*             text) and per endpoint; it does not change during a run     *)
(*   res       the memo fields of each resolver object                     *)
(*   child     _original_data_resolver_for_consolidated is not None        *)
(*   fetches   number of network requests sent, per resolver and endpoint  *)
(*   last      the accessor called last, its arguments, what it returned   *)
(*             or raised, and the sources it consulted (in order)          *)
(*   run       the locals of the pipeline's _get_data / _get_data_parallel *)
(*             while it runs, and the resolver objects constructed for it  *)
(*   store     the tables of the database behind StorageManager            *)
(***************************************************************************)
VARIABLES celex_id, remote, res, child, fetches, last, run, store

vars == <<celex_id, remote, res, child, fetches, last, run, store>>

Resolvers == {"self", "orig"}

Endpoints == {"xhtml", "plain", "meta", "sparql", "annex_xhtml", "annex_plain"}

Unavailable == <<"[Unavailable", "]">>

Fail == [t |-> "fail"]

EmptyMemo ==
    [xhtml |-> NoneV, plain |-> NoneV, meta |-> NoneV, sparql |-> NoneV,
     title |-> NoneV, doctype |-> NoneV]

\* no pipeline is running: the resolver is used on its own
NoRun == [state |-> "none"]

\* the database as init_engine creates it (storage/database.py): no rows
\* and the database has refused no statement yet
EmptyStore == [works |-> <<>>, text_units |-> <<>>, relations |-> <<>>, refused |-> 0]

\* self.original_celex
original_celex(celex) ==
    IF is_consolidated_celex(celex)
    THEN convert_consolidated_celex_to_original(celex).val
    ELSE celex

CelexOf(r) == IF r = "self" THEN celex_id ELSE original_celex(celex_id)

(***************************************************************************)
(* Results of calls.  m is the threaded object state: the memo fields      *)
(* (res), the child flag and the sources consulted so far (tr).  exc is    *)
(* "none" or the class of the exception that escapes the call.             *)
(***************************************************************************)
Ok(m, v) == [m |-> m, exc |-> "none", val |-> v]

Raise(m, e) == [m |-> m, exc |-> e, val |-> NoneV]

Consult(m, r, ep, net) ==
    [m EXCEPT !.tr = Append(@, [r |-> r, ep |-> ep, net |-> net])]

Memo(m, r, field, v) == [m EXCEPT !.res[r][field] = v]

\* the lookup without the assignment to its memo field: a plausible slip
LazyLookup_NoMemo(m, r, ep, validated) ==
    IF m.res[r][ep] # NoneV THEN Ok(Consult(m, r, ep, FALSE), m.res[r][ep])
    ELSE IF validated /\ validate_celex(CelexOf(r)).exc # "none"
         THEN Raise(Consult(m, r, ep, FALSE), "ValueError")
    ELSE IF remote[r][ep].t = "fail" THEN Raise(Consult(m, r, ep, TRUE), "RetrievalError")
    ELSE IF ep = "meta" /\ remote[r][ep].t = "malformed"
         THEN Raise(Consult(m, r, ep, TRUE), "XMLSyntaxError")
    ELSE Ok(Consult(m, r, ep, TRUE), remote[r][ep])

\* One lazily memoized lookup (the four @property methods): the memo field
\* is filled only by a request that returned; a request that raised leaves
\* it None.  The REST adapters validate the identifier before any request,
\* the structured query does not.
LazyLookup(m, r, ep, validated) ==
    IF m.res[r][ep] # NoneV THEN Ok(Consult(m, r, ep, FALSE), m.res[r][ep])
    ELSE IF validated /\ validate_celex(CelexOf(r)).exc # "none"
         THEN Raise(Consult(m, r, ep, FALSE), "ValueError")
    ELSE IF remote[r][ep].t = "fail" THEN Raise(Consult(m, r, ep, TRUE), "RetrievalError")
    ELSE IF ep = "meta" /\ remote[r][ep].t = "malformed"
         THEN Raise(Consult(m, r, ep, TRUE), "XMLSyntaxError")
    ELSE Ok(Memo(Consult(m, r, ep, TRUE), r, ep, remote[r][ep]), remote[r][ep])

raw_full_text_xhtml(m, r) == LazyLookup(m, r, "xhtml", TRUE)

raw_full_text_plain_html(m, r) == LazyLookup(m, r, "plain", TRUE)

expression_metadata_xml(m, r) == LazyLookup(m, r, "meta", TRUE)

sparql_query_result(m, r) == LazyLookup(m, r, "sparql", FALSE)

\* get_original_data_resolver_for_consolidated: the resolver to use and the
\* object state after the call
get_original_data_resolver_for_consolidated(m) ==
    IF is_consolidated_celex(celex_id)
    THEN [m |-> [m EXCEPT !.child = TRUE], r |-> "orig"]
    ELSE [m |-> m, r |-> "self"]

(***************************************************************************)
(* get_title (data_resolver.py:141-186)                                    *)
(***************************************************************************)
Truthy(v) == v.t = "str" /\ v.s # <<>>

\* what an accessor returns when a step of its chain ends it
Result(step) == [m |-> step.m, exc |-> step.exc, val |-> step.val]

\* a step of a fallback chain: found = the step returned from the accessor
Found(m, v) == [m |-> m, exc |-> "none", found |-> TRUE, val |-> v]

NotFound(m) == [m |-> m, exc |-> "none", found |-> FALSE, val |-> NoneV]

Escapes(m, e) == [m |-> m, exc |-> e, found |-> FALSE, val |-> NoneV]

\* an except clause: the exception classes it names; "Exception" names all
Catches(clause, e) == "Exception" \in clause \/ e \in clause

Handle(m, e, clause) == IF Catches(clause, e) THEN NotFound(m) ELSE Escapes(m, e)

SetTitle(m, r, title) == Found(Memo(m, r, "title", Str(title)), Str(title))

\* lines 146-154
TitleFromSparql(m, r) ==
    Bind(sparql_query_result(m, r), LAMBDA q :
        IF q.exc # "none" THEN Handle(q.m, q.exc, {"Exception"})
        ELSE IF q.val.title.t = "absent" THEN Handle(q.m, "KeyError", {"Exception"})
        ELSE IF q.val.title.s # <<>>
             THEN SetTitle(q.m, r, normalize_string(q.val.title.s))
             ELSE NotFound(q.m))

\* lines 157-167
TitleFromMetadata(m, r) ==
    Bind(expression_metadata_xml(m, r), LAMBDA x :
        IF x.exc # "none"
        THEN Handle(x.m, x.exc, {"IndexError", "AttributeError", "TypeError", "Exception"})
        ELSE IF Truthy(x.val.title)
             THEN SetTitle(x.m, r, normalize_string(x.val.title.s))
             ELSE NotFound(x.m))

\* " ".join(normalize_string(text) for text in div_title.itertext() if text.strip())
RECURSIVE NormalizedNodes(_)
NormalizedNodes(nodes) ==
    IF nodes = <<>> THEN <<>>
    ELSE (IF Strip(Head(nodes)) # <<>> THEN <<normalize_string(Head(nodes))>> ELSE <<>>)
         \o NormalizedNodes(Tail(nodes))

HeadingTitle(doc) ==
    IF doc.head.t = "none" THEN <<>>
    ELSE JoinWith(<<" ">>, NormalizedNodes(doc.head.nodes))

\* lines 170-181
TitleFromXhtml(m, r) ==
    Bind(raw_full_text_xhtml(m, r), LAMBDA h :
        IF h.exc # "none" THEN Handle(h.m, h.exc, {"Exception"})
        ELSE IF h.val.wf # "xml" THEN Handle(h.m, "XMLSyntaxError", {"Exception"})
        ELSE Bind(HeadingTitle(h.val.doc), LAMBDA title :
                 IF title # <<>> THEN SetTitle(h.m, r, title) ELSE NotFound(h.m)))

\* the chain tried in another order: a plausible slip
get_title_MetadataFirst(m, r) ==
    IF Truthy(m.res[r].title) THEN Ok(m, m.res[r].title)
    ELSE Bind(TitleFromMetadata(m, r), LAMBDA a :
         IF a.exc # "none" \/ a.found THEN Result(a)
         ELSE Bind(TitleFromSparql(a.m, r), LAMBDA b :
         IF b.exc # "none" \/ b.found THEN Result(b)
         ELSE Bind(TitleFromXhtml(b.m, r), LAMBDA c :
         IF c.exc # "none" \/ c.found THEN Result(c)
         ELSE Ok(Memo(c.m, r, "title", Str(Unavailable)), Str(Unavailable)))))

get_title(m, r) ==
    IF Truthy(m.res[r].title) THEN Ok(m, m.res[r].title)
    ELSE Bind(TitleFromSparql(m, r), LAMBDA a :
         IF a.exc # "none" \/ a.found THEN Result(a)
         ELSE Bind(TitleFromMetadata(a.m, r), LAMBDA b :
         IF b.exc # "none" \/ b.found THEN Result(b)
         ELSE Bind(TitleFromXhtml(b.m, r), LAMBDA c :
         IF c.exc # "none" \/ c.found THEN Result(c)
         ELSE Ok(Memo(c.m, r, "title", Str(Unavailable)), Str(Unavailable)))))

(***************************************************************************)
(* get_document_type (data_resolver.py:188-217)                            *)
(***************************************************************************)
\* celex_id[5:7]
TypeSlice(celex) == SubSeq(celex, 6, IF Len(celex) < 7 THEN Len(celex) ELSE 7)

\* .rstrip('0123456789')
RECURSIVE RStripDigits(_)
RStripDigits(s) ==
    IF s # <<>> /\ s[Len(s)] \in Digits THEN RStripDigits(SubSeq(s, 1, Len(s) - 1)) ELSE s

doc_type_map ==
    [code \in {<<"L">>, <<"R">>, <<"D">>, <<"P", "C">>, <<"D", "C">>} |->
        CASE code = <<"L">> -> <<"directive">>
          [] code = <<"R">> -> <<"regulation">>
          [] code = <<"D">> -> <<"decision">>
          [] code = <<"P", "C">> -> <<"proposal">>
          [] code = <<"D", "C">> -> <<"other", " ", "preparatory", " ", "document">>]

Unknown == <<"Unknown">>

get_document_type(m, r) ==
    Bind(RStripDigits(TypeSlice(CelexOf(r))), LAMBDA type_id :
        IF Truthy(m.res[r].doctype) THEN Ok(m, m.res[r].doctype)
        ELSE IF CelexOf(r) = <<>>                      \* celex_id[0]: IndexError
             THEN Ok(Memo(m, r, "doctype", Str(Unknown)), Str(Unknown))
        ELSE IF type_id \notin DOMAIN doc_type_map     \* KeyError
             THEN Ok(Memo(m, r, "doctype", Str(Unknown)), Str(Unknown))
        ELSE IF CelexOf(r)[1] = "0"
             THEN Ok(m, Str(<<"consolidated", " ">> \o doc_type_map[type_id]))
        ELSE Ok(Memo(m, r, "doctype", Str(doc_type_map[type_id])),
                Str(doc_type_map[type_id])))

(***************************************************************************)
(* get_date_adopted (data_resolver.py:219-269)                             *)
(***************************************************************************)
\* What the patterns of the source see in a word of the vocabulary:
\*   day      the number formed by its last one or two digits, when it ends
\*            in a digit                              (\d{1,2}) before \s
\*   alpha    it is made of 3 to 9 letters            ([A-Za-z]{3,9})
\*   month    its month number when it is a full English month name (%B)
\*   year     the number formed by its first four digits (\d{4}) after \s
\*   digits   its length when it is made of digits only, else 0
\*   article  it is "article" in any letter case
\*   whereas  it starts with "Whereas"
\*   annex    it starts with "annex" in any letter case; annextail is what
\*            follows these five letters inside the word
\*   roman    its leading run of the letters IVXLCDMivxlcdm, romanrest the
\*            rest of the word
\*   paren    the digits d of a word "(d"
NoWord ==
    [day |-> NonNumeric, alpha |-> FALSE, month |-> 0, year |-> NonNumeric,
     digits |-> 0, article |-> FALSE, whereas |-> FALSE, annex |-> FALSE,
     annextail |-> <<>>, roman |-> <<>>, romanrest |-> <<>>, paren |-> <<>>]

Vocabulary ==
    [w \in {"1", "2", "27", "31", "2016", "April", "February", "Apr", "Article",
            "Whereas", "ANNEX", "Annexes", "I", "II", "List", "(1", "(2"} |->
        CASE w = "1"        -> [NoWord EXCEPT !.day = 1, !.digits = 1]
          [] w = "2"        -> [NoWord EXCEPT !.day = 2, !.digits = 1]
          [] w = "27"       -> [NoWord EXCEPT !.day = 27, !.digits = 2]
          [] w = "31"       -> [NoWord EXCEPT !.day = 31, !.digits = 2]
          [] w = "2016"     -> [NoWord EXCEPT !.day = 16, !.year = 2016, !.digits = 4]
          [] w = "April"    -> [NoWord EXCEPT !.alpha = TRUE, !.month = 4]
          [] w = "February" -> [NoWord EXCEPT !.alpha = TRUE, !.month = 2]
          [] w = "Apr"      -> [NoWord EXCEPT !.alpha = TRUE]
          [] w = "Article"  -> [NoWord EXCEPT !.alpha = TRUE, !.article = TRUE]
          [] w = "Whereas"  -> [NoWord EXCEPT !.alpha = TRUE, !.whereas = TRUE]
          [] w = "ANNEX"    -> [NoWord EXCEPT !.alpha = TRUE, !.annex = TRUE]
          [] w = "Annexes"  -> [NoWord EXCEPT !.alpha = TRUE, !.annex = TRUE,
                                              !.annextail = <<"es">>]
          [] w = "I"        -> [NoWord EXCEPT !.roman = <<"I">>]
          [] w = "II"       -> [NoWord EXCEPT !.roman = <<"II">>]
          [] w = "List"     -> [NoWord EXCEPT !.alpha = TRUE, !.roman = <<"Li">>,
                                              !.romanrest = <<"st">>]
          [] w = "(1"       -> [NoWord EXCEPT !.day = 1, !.paren = <<"1">>]
          [] w = "(2"       -> [NoWord EXCEPT !.day = 2, !.paren = <<"2">>]]

Word(tok) == IF tok \in DOMAIN Vocabulary THEN Vocabulary[tok] ELSE NoWord

\* re.search(r'(\d{1,2})\s([A-Za-z]{3,9})\s(\d{4})', title) matches at token i
DatePhraseAt(title, i) ==
    /\ i + 4 <= Len(title)
    /\ Word(title[i]).day # NonNumeric
    /\ title[i + 1] \in WS
    /\ Word(title[i + 2]).alpha
    /\ title[i + 3] \in WS
    /\ Word(title[i + 4]).year # NonNumeric

\* strptime(value, "%Y-%m-%d").date() of the text with the given fields
ParseIsoDate(fields) ==
    IF /\ Len(fields) = 3
       /\ \A i \in 1..3 : fields[i] >= 0
       /\ ValidDate(fields[1], fields[2], fields[3])
    THEN [exc |-> "none", val |-> Date(fields[1], fields[2], fields[3])]
    ELSE [exc |-> "ValueError", val |-> NoneV]

\* lines 226-234
DateFromSparql(m, r) ==
    Bind(sparql_query_result(m, r), LAMBDA q :
        IF q.exc # "none" THEN Handle(q.m, q.exc, {"Exception"})
        ELSE IF q.val.date.t = "absent" THEN Handle(q.m, "KeyError", {"Exception"})
        ELSE IF q.val.date.t = "date" THEN Found(q.m, q.val.date)
        ELSE IF q.val.date.s = <<>> THEN NotFound(q.m)
        ELSE Bind(ParseIsoDate(q.val.date.s), LAMBDA d :
                 IF d.exc # "none" THEN Handle(q.m, d.exc, {"Exception"})
                 ELSE Found(q.m, d.val)))

\* datetime.date(int(YEAR), int(MONTH), int(DAY)) on the DATE_DOCUMENT element
ComposeDate(d) ==
    IF d = NoneV THEN "AttributeError"
    ELSE IF d.y = Missing THEN "TypeError"
    ELSE IF d.y = NonNumeric THEN "ValueError"
    ELSE IF d.m = Missing THEN "TypeError"
    ELSE IF d.m = NonNumeric THEN "ValueError"
    ELSE IF d.d = Missing THEN "TypeError"
    ELSE IF d.d = NonNumeric THEN "ValueError"
    ELSE IF ~ ValidDate(d.y, d.m, d.d) THEN "ValueError"
    ELSE "none"

\* the handlers of lines 244-247 without the second one: a plausible slip
MetadataClause_Named == {"IndexError", "AttributeError", "TypeError", "ValueError"}

\* except (IndexError, AttributeError, TypeError, ValueError) / except Exception
MetadataClause == {"IndexError", "AttributeError", "TypeError", "ValueError", "Exception"}

\* lines 237-247
DateFromMetadata(m, r) ==
    Bind(expression_metadata_xml(m, r), LAMBDA x :
        IF x.exc # "none" THEN Handle(x.m, x.exc, MetadataClause)
        ELSE Bind(ComposeDate(x.val.date), LAMBDA e :
                 IF e # "none" THEN Handle(x.m, e, MetadataClause)
                 ELSE Found(x.m, Date(x.val.date.y, x.val.date.m, x.val.date.d))))

\* lines 253-263, on the title text
DateFromPhrase(title) ==
    IF ~ \E i \in 1..Len(title) : DatePhraseAt(title, i)
    THEN [exc |-> "ValueError", val |-> NoneV]      \* raise ValueError("Title unavailable.")
    ELSE Bind(CHOOSE k \in 1..Len(title) :
                  /\ DatePhraseAt(title, k)
                  /\ \A j \in 1..(k - 1) : ~ DatePhraseAt(title, j),
              LAMBDA i :
                  IF Word(title[i + 2]).month = 0
                  THEN [exc |-> "ValueError", val |-> NoneV]
                  ELSE IF ~ ValidDate(Word(title[i + 4]).year, Word(title[i + 2]).month,
                                      Word(title[i]).day)
                  THEN [exc |-> "ValueError", val |-> NoneV]
                  ELSE [exc |-> "none",
                        val |-> Date(Word(title[i + 4]).year, Word(title[i + 2]).month,
                                     Word(title[i]).day)])

\* lines 250-265: the title is asked of the resolver the method was called
\* on (self.get_title()), whatever resolver the first two steps used
DateFromTitle(m, r) ==
    Bind(get_title(m, r), LAMBDA t :
        IF t.exc # "none" THEN Handle(t.m, t.exc, {"Exception"})
        ELSE IF t.val.s = Unavailable THEN NotFound(t.m)
        ELSE Bind(DateFromPhrase(t.val.s), LAMBDA d :
                 IF d.exc # "none" THEN Handle(t.m, d.exc, {"Exception"})
                 ELSE Found(t.m, d.val)))

\* lines 220-223: the resolver of the first two steps
DateSource(m, r) ==
    IF is_consolidated_celex(CelexOf(r))
    THEN get_original_data_resolver_for_consolidated(m)
    ELSE [m |-> m, r |-> r]

\* the first two steps in another order: a plausible slip
get_date_adopted_MetadataFirst(m, r) ==
    Bind(DateSource(m, r), LAMBDA o :
    Bind(DateFromMetadata(o.m, o.r), LAMBDA a :
        IF a.exc # "none" \/ a.found THEN Result(a)
        ELSE Bind(DateFromSparql(a.m, o.r), LAMBDA b :
        IF b.exc # "none" \/ b.found THEN Result(b)
        ELSE Bind(DateFromTitle(b.m, r), LAMBDA c :
        IF c.exc # "none" \/ c.found THEN Result(c)
        ELSE Ok(c.m, NoneV)))))

get_date_adopted(m, r) ==
    Bind(DateSource(m, r), LAMBDA o :
    Bind(DateFromSparql(o.m, o.r), LAMBDA a :
        IF a.exc # "none" \/ a.found THEN Result(a)
        ELSE Bind(DateFromMetadata(a.m, o.r), LAMBDA b :
        IF b.exc # "none" \/ b.found THEN Result(b)
        ELSE Bind(DateFromTitle(b.m, r), LAMBDA c :
        IF c.exc # "none" \/ c.found THEN Result(c)
        ELSE Ok(c.m, NoneV)))))

(***************************************************************************)
(* get_full_text_html (data_resolver.py:128-139)                           *)
(***************************************************************************)
\* bytes.decode('utf-8'): the accessor returns the raw record, tagged "text"
Decode(b) ==
    IF b.utf8 THEN [exc |-> "none", val |-> [t |-> "text", of |-> b]]
    ELSE [exc |-> "UnicodeDecodeError", val |-> NoneV]

get_full_text_html(m, r) ==
    Bind(raw_full_text_xhtml(m, r), LAMBDA h :
        IF h.exc = "none" /\ Decode(h.val).exc = "none" THEN Ok(h.m, Decode(h.val).val)
        ELSE Bind(raw_full_text_plain_html(h.m, r), LAMBDA p :
                 IF p.exc = "none" /\ Decode(p.val).exc = "none" THEN Ok(p.m, Decode(p.val).val)
                 ELSE Ok(p.m, NoneV)))

(***************************************************************************)
(* Documents.  A parsed document is its main-title heading and the         *)
(* sequence of the elements of its body (after _flatten_content_divs these *)
(* are siblings), in document order.  An element is                        *)
(*   a div with an id (pre + suf) and child elements ch (class, text),     *)
(*   a p with a class, its text, the text of its nested "num" span, and,   *)
(*     when it contains a br element, the text after the br,               *)
(*   the div with id TexteOnly and its paragraphs ps.                      *)
(***************************************************************************)
Elem ==
    [k |-> "p", pre |-> "", suf |-> <<>>, cls |-> "", text |-> <<>>, num |-> <<>>,
     span |-> TRUE, br |-> FALSE, after |-> <<>>, ch |-> <<>>, ps |-> <<>>]

Div(pre, suf, ch) == [Elem EXCEPT !.k = "div", !.pre = pre, !.suf = suf, !.ch = ch]

Child(cls, text) == [cls |-> cls, text |-> text]

P(cls, text) == [Elem EXCEPT !.cls = cls, !.text = text]

PBr(cls, text, after) == [Elem EXCEPT !.cls = cls, !.text = text, !.br = TRUE, !.after = after]

PNum(cls, num, text) == [Elem EXCEPT !.cls = cls, !.num = num, !.text = text]

TexteOnly(ps) == [Elem EXCEPT !.k = "TexteOnly", !.ps = ps]

RECURSIVE NonBlank(_)
NonBlank(texts) ==
    IF texts = <<>> THEN <<>>
    ELSE (IF Strip(Head(texts)) # <<>> THEN <<Head(texts)>> ELSE <<>>) \o NonBlank(Tail(texts))

\* the text nodes below an element, in document order
TextNodes(e) ==
    IF e.k = "div" THEN [i \in 1..Len(e.ch) |-> e.ch[i].text]
    ELSE IF e.k = "TexteOnly" THEN e.ps
    ELSE IF e.br THEN <<e.text, e.after>>
    ELSE <<e.text>>

\* _extract_text (lines 271-273)
ExtractTextOf(nodes) == normalize_string(JoinWith(<<" ">>, NonBlank(nodes)))

_extract_text(e) == ExtractTextOf(TextNodes(e))

\* the indexes of a sequence that satisfy a test, in ascending order
Least(S) == CHOOSE x \in S : \A y \in S : x <= y

RECURSIVE Ascending(_)
Ascending(S) ==
    IF S = {} THEN <<>> ELSE <<Least(S)>> \o Ascending(S \ {Least(S)})

\* lines 57-67
is_standard_structure(doc) ==
    \E i \in 1..Len(doc.body) :
        doc.body[i].k = "div" /\ doc.body[i].pre \in {"rct_", "art_"}

ManualClasses == {"li ManualConsidrant", "Titrearticle", "Annexetitre"}

is_manual_structure(doc) ==
    \E i \in 1..Len(doc.body) :
        doc.body[i].k = "p" /\ doc.body[i].cls \in ManualClasses

is_text_only_structure(doc) ==
    \E i \in 1..Len(doc.body) : doc.body[i].k = "TexteOnly"

Recognized(doc) ==
    is_standard_structure(doc) \/ is_manual_structure(doc) \/ is_text_only_structure(doc)

(***************************************************************************)
(* The extraction routines return the units built and whether an exception *)
(* was caught inside the routine.  src and pos of a unit are not fields of *)
(* the program's record: they note the document the unit was taken from    *)
(* and the position of its source element; used notes the TexteOnly        *)
(* paragraphs that went into it.                                           *)
(***************************************************************************)
Extracted(units) == [units |-> units, raised |-> FALSE]

RecitalUnit(celex, number, text, src, pos, used) ==
    [celex_id |-> celex, type |-> "recital", number |-> number, text |-> text,
     src |-> src, pos |-> pos, used |-> used]

TitledUnit(celex, type, number, title, text, src, pos, used) ==
    [celex_id |-> celex, type |-> type, number |-> number, title |-> title,
     text |-> text, src |-> src, pos |-> pos, used |-> used]

LowerLetters == {LowerSeq[i] : i \in 1..26}

RomanOrDigit ==
    {"I", "V", "X", "L", "C", "D", "M", "i", "v", "x", "l", "c", "d", "m"} \cup Digits

\* re:test(@id, '^art_\d+[a-z]*$')
IsArticleId(e) ==
    /\ e.k = "div" /\ e.pre = "art_"
    /\ \E n \in 1..Len(e.suf) :
          AllIn(e.suf, 1, n, Digits) /\ AllIn(e.suf, n + 1, Len(e.suf), LowerLetters)

\* re:test(@id, '^anx_[IVXLCDMivxlcdm0-9]+$')
IsAnnexId(e) ==
    e.k = "div" /\ e.pre = "anx_" /\ e.suf # <<>> /\ AllIn(e.suf, 1, Len(e.suf), RomanOrDigit)

\* lines 275-293
_extract_standard_structure_recitals(tree, celex) ==
    Bind(tree.doc.body, LAMBDA body :
    Bind(Ascending({i \in 1..Len(body) : body[i].k = "div" /\ body[i].pre = "rct_"}),
         LAMBDA idx :
             Extracted([n \in 1..Len(idx) |->
                 RecitalUnit(celex, body[idx[n]].suf, _extract_text(body[idx[n]]),
                             tree.src, idx[n], {})])))

\* the children of an article that are not its title or its number heading
RECURSIVE ArticleParts(_)
ArticleParts(ch) ==
    IF ch = <<>> THEN <<>>
    ELSE (IF Head(ch).cls \notin {"eli-title", "oj-ti-art"}
          THEN <<normalize_string(Head(ch).text)>> ELSE <<>>) \o ArticleParts(Tail(ch))

ArticleTitle(ch) ==
    IF \E i \in 1..Len(ch) : ch[i].cls = "eli-title"
    THEN normalize_string(ch[CHOOSE i \in 1..Len(ch) :
                                /\ ch[i].cls = "eli-title"
                                /\ \A j \in 1..(i - 1) : ch[j].cls # "eli-title"].text)
    ELSE <<>>

\* lines 295-323
_extract_standard_structure_articles(tree, celex) ==
    Bind(tree.doc.body, LAMBDA body :
    Bind(Ascending({i \in 1..Len(body) : IsArticleId(body[i])}), LAMBDA idx :
        Extracted([n \in 1..Len(idx) |->
            TitledUnit(celex, "article", body[idx[n]].suf, ArticleTitle(body[idx[n]].ch),
                       Strip(JoinWith(<<" ">>, ArticleParts(body[idx[n]].ch))),
                       tree.src, idx[n], {})])))

\* annex_header_pattern = ^ANNEX\s*[IVXLCDM]* (IGNORECASE) matches the text
AnnexHeader(text) == text # <<>> /\ Word(text[1]).annex

\* lines 339-346: the title left by the loop over the children
RECURSIVE AnnexTitle(_, _)
AnnexTitle(ch, title) ==
    IF ch = <<>> THEN title
    ELSE IF Head(ch).cls = "oj-doc-ti" /\ ~ AnnexHeader(normalize_string(Head(ch).text))
         THEN AnnexTitle(Tail(ch), normalize_string(Head(ch).text))
         ELSE AnnexTitle(Tail(ch), title)

RECURSIVE AnnexParts(_)
AnnexParts(ch) ==
    IF ch = <<>> THEN <<>>
    ELSE (IF Head(ch).cls # "oj-doc-ti" THEN <<normalize_string(Head(ch).text)>> ELSE <<>>)
         \o AnnexParts(Tail(ch))

\* lines 325-358
_extract_standard_structure_annexes(tree, celex) ==
    Bind(tree.doc.body, LAMBDA body :
    Bind(Ascending({i \in 1..Len(body) : IsAnnexId(body[i])}), LAMBDA idx :
        Extracted([n \in 1..Len(idx) |->
            TitledUnit(celex, "annex", body[idx[n]].suf, AnnexTitle(body[idx[n]].ch, <<>>),
                       Strip(JoinWith(<<" ">>, AnnexParts(body[idx[n]].ch))),
                       tree.src, idx[n], {})])))

(***************************************************************************)
(* Manual structure (data_resolver.py:360-548)                             *)
(***************************************************************************)
\* re.search(r'\((\d+)\)', num_text): group 1 of the leftmost match
ParenAt(text, i) == i < Len(text) /\ Word(text[i]).paren # <<>> /\ text[i + 1] = ")"

ParenNumber(text) ==
    IF \E i \in 1..Len(text) : ParenAt(text, i)
    THEN Word(text[CHOOSE i \in 1..Len(text) :
                       ParenAt(text, i) /\ \A j \in 1..(i - 1) : ~ ParenAt(text, j)]).paren
    ELSE <<>>

\* lines 360-390
_extract_manual_structure_recitals(tree, celex) ==
    Bind(tree.doc.body, LAMBDA body :
    Bind(Ascending({i \in 1..Len(body) :
                       body[i].k = "p" /\ body[i].cls = "li ManualConsidrant"}),
         LAMBDA idx :
             Extracted([n \in 1..Len(idx) |->
                 RecitalUnit(celex,
                             IF body[idx[n]].num # <<>>
                             THEN ParenNumber(normalize_string(body[idx[n]].num)) ELSE <<>>,
                             normalize_string(_extract_text(body[idx[n]])),
                             tree.src, idx[n], {})])))

\* re.sub(r'(\d)\s+(\d)', r'\1\2', number_text).  left: the word at the head
\* may still give the digit on the left of a match (a one-digit word that was
\* the right side of the previous match may not).
RECURSIVE CollapseDigitGroups(_, _)
CollapseDigitGroups(s, left) ==
    IF s = <<>> THEN <<>>
    ELSE IF /\ left /\ Word(s[1]).day # NonNumeric
            /\ SkipWS(s, 2) > 2 /\ SkipWS(s, 2) <= Len(s) /\ Word(s[SkipWS(s, 2)]).digits > 0
         THEN <<s[1]>> \o CollapseDigitGroups(SubSeq(s, SkipWS(s, 2), Len(s)),
                                              Word(s[SkipWS(s, 2)]).digits >= 2)
         ELSE <<s[1]>> \o CollapseDigitGroups(Tail(s), TRUE)

\* the run of digit words of s that starts at i
RECURSIVE DigitRun(_, _)
DigitRun(s, i) ==
    IF i <= Len(s) /\ Word(s[i]).digits > 0 THEN <<s[i]>> \o DigitRun(s, i + 1) ELSE <<>>

\* re.search(r'Article\s+(\d+)', text, re.IGNORECASE): group 1 of the
\* leftmost match, or the empty text
ArticleAt(text, i) ==
    /\ Word(text[i]).article
    /\ SkipWS(text, i + 1) > i + 1
    /\ DigitRun(text, SkipWS(text, i + 1)) # <<>>

ArticleNumber(text) ==
    IF \E i \in 1..Len(text) : ArticleAt(text, i)
    THEN DigitRun(text, SkipWS(text, 1 + CHOOSE i \in 1..Len(text) :
                                        ArticleAt(text, i)
                                        /\ \A j \in 1..(i - 1) : ~ ArticleAt(text, j)))
    ELSE <<>>

\* [self._extract_text(element) for element in next_elem]: the texts of the
\* child elements of a paragraph (its spans, and its br element if any)
ChildTexts(e) ==
    IF e.k = "div" THEN [i \in 1..Len(e.ch) |-> normalize_string(e.ch[i].text)]
    ELSE IF e.k = "TexteOnly" THEN [i \in 1..Len(e.ps) |-> normalize_string(e.ps[i])]
    ELSE IF e.span
         THEN (IF e.br THEN <<normalize_string(e.text), <<>>, normalize_string(e.after)>>
               ELSE <<normalize_string(e.text)>>)
         ELSE (IF e.br THEN << <<>> >> ELSE <<>>)

StopClasses == {"Titrearticle", "Annexetitre", "Fait", "Fichefinanciretitre"}

\* lines 472-481 / 527-536: the texts of the siblings from position i up to
\* the next stop class
RECURSIVE SiblingTexts(_, _)
SiblingTexts(body, i) ==
    IF i > Len(body) \/ body[i].cls \in StopClasses THEN <<>>
    ELSE <<_extract_text(body[i])>> \o SiblingTexts(body, i + 1)

\* lines 403-461: the number of the article a title paragraph e opens
ManualArticleNumber(e) ==
    IF e.br THEN ArticleNumber(CollapseDigitGroups(e.text, TRUE))
    ELSE IF e.span THEN ArticleNumber(CollapseDigitGroups(normalize_string(e.text), TRUE))
    ELSE <<>>

\* lines 400-490, for the article title paragraphs idx; next_elem.attrib on
\* a missing sibling raises AttributeError, caught at line 491
RECURSIVE ManualArticles(_, _, _, _)
ManualArticles(tree, celex, idx, units) ==
    IF idx = <<>> THEN [units |-> units, raised |-> FALSE]
    ELSE Bind(tree.doc.body, LAMBDA body :
         Bind(Head(idx), LAMBDA i :
         Bind(ManualArticleNumber(body[i]), LAMBDA number :
         Bind(IF body[i].br THEN Strip(body[i].after) ELSE <<>>, LAMBDA title0 :
             IF title0 = <<>> /\ i = Len(body) THEN [units |-> units, raised |-> TRUE]
             ELSE Bind(title0 = <<>> /\ body[i + 1].cls = "Titrearticle", LAMBDA consume :
                  ManualArticles(tree, celex, Tail(idx),
                      IF number # <<>>
                      THEN Append(units,
                               TitledUnit(celex, "article", number,
                                   normalize_string(
                                       IF consume
                                       THEN Strip(JoinWith(<<" ">>, ChildTexts(body[i + 1])))
                                       ELSE title0),
                                   normalize_string(Strip(Concat(
                                       SiblingTexts(body, IF consume THEN i + 2 ELSE i + 1)))),
                                   tree.src, i, {}))
                      ELSE units))))))

\* lines 392-494
_extract_manual_structure_articles(tree, celex) ==
    ManualArticles(tree, celex,
        Ascending({i \in 1..Len(tree.doc.body) :
                     tree.doc.body[i].k = "p" /\ tree.doc.body[i].cls = "Titrearticle"}),
        <<>>)

\* re.search(r'ANNEX\s+([IVXLCDMivxlcdm]+)', title_text, re.IGNORECASE)
AnnexNumberAt(text, i) ==
    /\ Word(text[i]).annex /\ Word(text[i]).annextail = <<>>
    /\ SkipWS(text, i + 1) > i + 1
    /\ SkipWS(text, i + 1) <= Len(text)
    /\ Word(text[SkipWS(text, i + 1)]).roman # <<>>

\* lines 511-515: annex_number and annex_title
ManualAnnexHead(text) ==
    IF \E i \in 1..Len(text) : AnnexNumberAt(text, i)
    THEN Bind(SkipWS(text, 1 + CHOOSE k \in 1..Len(text) :
                                   /\ AnnexNumberAt(text, k)
                                   /\ \A j \in 1..(k - 1) : ~ AnnexNumberAt(text, j)),
              LAMBDA j :
                  [number |-> Word(text[j]).roman,
                   title |-> Strip(Word(text[j]).romanrest \o SubSeq(text, j + 1, Len(text)))])
    ELSE [number |-> <<>>, title |-> <<>>]

\* lines 504-544
RECURSIVE ManualAnnexes(_, _, _, _)
ManualAnnexes(tree, celex, idx, units) ==
    IF idx = <<>> THEN [units |-> units, raised |-> FALSE]
    ELSE Bind(tree.doc.body, LAMBDA body :
         Bind(Head(idx), LAMBDA i :
         Bind(ManualAnnexHead(_extract_text(body[i])), LAMBDA head :
             IF head.title = <<>> /\ i = Len(body) THEN [units |-> units, raised |-> TRUE]
             ELSE Bind(head.title = <<>> /\ body[i + 1].cls = "NormalCentered", LAMBDA consume :
                  ManualAnnexes(tree, celex, Tail(idx),
                      Append(units,
                          TitledUnit(celex, "annex", head.number,
                              IF consume
                              THEN Strip(JoinWith(<<" ">>, ChildTexts(body[i + 1])))
                              ELSE head.title,
                              Strip(JoinWith(<<" ">>,
                                  SiblingTexts(body, IF consume THEN i + 2 ELSE i + 1))),
                              tree.src, i, {})))))))

\* lines 496-548
_extract_manual_structure_annexes(tree, celex) ==
    ManualAnnexes(tree, celex,
        Ascending({i \in 1..Len(tree.doc.body) :
                     tree.doc.body[i].k = "p" /\ tree.doc.body[i].cls = "Annexetitre"}),
        <<>>)

(***************************************************************************)
(* Text Only structure (data_resolver.py:550-679)                          *)
(***************************************************************************)
\* str(recital_count), for the counts the model reaches
DecimalStr == <<"1", "2", "3", "4", "5", "6", "7", "8", "9">>

\* p_text = self._extract_text(p).strip()
PText(ps, i) == Strip(ExtractTextOf(<<ps[i]>>))

\* p_text.startswith("Whereas")
StartsWhereas(t) == t # <<>> /\ Word(t[1]).whereas

\* article_pattern = ^Article\s+(\d+) (IGNORECASE)
ArticleMatch(t) ==
    /\ Len(t) >= 3 /\ Word(t[1]).article
    /\ SkipWS(t, 2) > 2 /\ SkipWS(t, 2) <= Len(t)
    /\ Word(t[SkipWS(t, 2)]).digits > 0

ArticleGroup(t) == <<t[SkipWS(t, 2)]>>

\* annex_pattern = ^ANNEX\s*([IVXLCDMivxlcdm0-9]*)(.*) (IGNORECASE)
AnnexMatch(t) == t # <<>> /\ Word(t[1]).annex

\* the leading run of roman-numeral letters and digits of a word, and the
\* rest of the word
RomanDigitRun(tok) == IF Word(tok).digits > 0 THEN <<tok>> ELSE Word(tok).roman

AfterRun(tok) ==
    IF Word(tok).digits > 0 THEN <<>>
    ELSE IF Word(tok).roman # <<>> THEN Word(tok).romanrest
    ELSE <<tok>>

\* groups 1 and 2 of annex_pattern on a text that matches it
AnnexGroups(t) ==
    Bind(IF Word(t[1]).annextail # <<>>
         THEN Word(t[1]).annextail \o Tail(t)
         ELSE SubSeq(t, SkipWS(t, 2), Len(t)),
         LAMBDA rest :
             IF rest = <<>> THEN [number |-> <<>>, title |-> <<>>]
             ELSE [number |-> RomanDigitRun(rest[1]),
                   title |-> AfterRun(rest[1]) \o Tail(rest)])

\* the first paragraph at or after i that ends the body of an article
\* (lines 617-627) or of an annex (lines 650-659)
RECURSIVE BodyEnd(_, _, _)
BodyEnd(ps, i, annexOnly) ==
    IF i > Len(ps) THEN i
    ELSE IF AnnexMatch(PText(ps, i)) \/ (~ annexOnly /\ ArticleMatch(PText(ps, i))) THEN i
    ELSE BodyEnd(ps, i + 1, annexOnly)

BodyText(ps, from, to) ==
    normalize_string(Strip(JoinWith(<<" ">>, [k \in 1..(to - from) |-> PText(ps, from + k - 1)])))

\* lines 591-673: the while loop, from cursor i
RECURSIVE TextOnlyScan(_, _, _, _, _, _)
TextOnlyScan(ps, i, flags, celex, src, acc) ==
    IF i > Len(ps) THEN acc.units
    ELSE Bind(PText(ps, i), LAMBDA t :
         IF flags.recitals /\ StartsWhereas(t)
         THEN TextOnlyScan(ps, i + 1, flags, celex, src,
                  [count |-> acc.count + 1,
                   units |-> Append(acc.units,
                       RecitalUnit(celex, <<DecimalStr[acc.count + 1]>>, normalize_string(t),
                                   src, i, {i}))])
         ELSE IF flags.articles /\ ArticleMatch(t)
         THEN Bind(BodyEnd(ps, i + 1, FALSE), LAMBDA e :
                  TextOnlyScan(ps, e, flags, celex, src,
                      [acc EXCEPT !.units = Append(@,
                          TitledUnit(celex, "article", ArticleGroup(t), <<>>,
                                     BodyText(ps, i + 1, e), src, i, i..(e - 1)))]))
         ELSE IF flags.annexes /\ AnnexMatch(t)
         THEN Bind(BodyEnd(ps, i + 1, TRUE), LAMBDA e :
              Bind(AnnexGroups(t), LAMBDA g :
                  TextOnlyScan(ps, e, flags, celex, src,
                      [acc EXCEPT !.units = Append(@,
                          TitledUnit(celex, "annex", g.number,
                                     normalize_string(Strip(g.title)),
                                     BodyText(ps, i + 1, e), src, i, i..(e - 1)))])))
         ELSE TextOnlyScan(ps, i + 1, flags, celex, src, acc))

Flags(rec, art, anx) == [recitals |-> rec, articles |-> art, annexes |-> anx]

\* lines 550-679
_extract_text_only_units(tree, celex, flags) ==
    IF ~ (flags.recitals \/ flags.articles \/ flags.annexes) THEN Extracted(<<>>)
    ELSE IF ~ is_text_only_structure(tree.doc) THEN Extracted(<<>>)
    ELSE Bind(tree.doc.body, LAMBDA body :
             Extracted(TextOnlyScan(
                 body[CHOOSE i \in 1..Len(body) :
                          /\ body[i].k = "TexteOnly"
                          /\ \A j \in 1..(i - 1) : body[j].k # "TexteOnly"].ps,
                 1, flags, celex, tree.src, [count |-> 0, units |-> <<>>])))

(***************************************************************************)
(* get_text_units (data_resolver.py:681-804)                               *)
(***************************************************************************)
Tree(bytes, r, ep) == [t |-> "tree", doc |-> bytes.doc, src |-> [r |-> r, ep |-> ep]]

NoTree == [t |-> "None"]

\* a request that is not memoized (get_annex_xhtml, get_annex_plain_html)
Fetch(m, r, ep) ==
    IF validate_celex(CelexOf(r)).exc # "none"
    THEN Raise(Consult(m, r, ep, FALSE), "ValueError")
    ELSE IF remote[r][ep].t = "fail" THEN Raise(Consult(m, r, ep, TRUE), "RetrievalError")
    ELSE Ok(Consult(m, r, ep, TRUE), remote[r][ep])

\* The pattern used three times (lines 691-703, 710-727, 731-752):
\*   try:    t = etree.fromstring(<xhtml>); raise unless a detector accepts t
\*   except: try:    t = html.fromstring(<plain html>)
\*           except: (log)
\* t keeps the value of the last assignment that was executed; before is its
\* value before the pattern.  ok is FALSE when the inner except was reached.
\* x is the outcome of the first request, p the outcome of the second one
\* (made after x, and only when the first try block raised).
ParseWithFallback(x, p, before, r, epx, epp) ==
    IF x.exc = "none" /\ x.val.wf = "xml" /\ Recognized(x.val.doc)
    THEN [m |-> x.m, tree |-> Tree(x.val, r, epx), ok |-> TRUE]
    ELSE IF p.exc = "none" /\ p.val.wf \in {"xml", "html"}
         THEN [m |-> p.m, tree |-> Tree(p.val, r, epp), ok |-> TRUE]
         ELSE [m |-> p.m,
               tree |-> IF x.exc = "none" /\ x.val.wf = "xml"
                        THEN Tree(x.val, r, epx) ELSE before,
               ok |-> FALSE]

\* the detectors asked in another order: a plausible slip
Detect_ManualFirst(tree) ==
    IF is_manual_structure(tree.doc) THEN "Manual"
    ELSE IF is_standard_structure(tree.doc) THEN "Standard"
    ELSE IF is_text_only_structure(tree.doc) THEN "TextOnly"
    ELSE "None"

\* the routine the if/elif chain of lines 758-801 selects for a tree
Detect(tree) ==
    IF is_standard_structure(tree.doc) THEN "Standard"
    ELSE IF is_manual_structure(tree.doc) THEN "Manual"
    ELSE IF is_text_only_structure(tree.doc) THEN "TextOnly"
    ELSE "None"

\* lines 758-767
ExtractRecitals(tree, celex) ==
    Bind(Detect(tree), LAMBDA kind :
        CASE kind = "Standard" -> _extract_standard_structure_recitals(tree, celex)
          [] kind = "Manual"   -> _extract_manual_structure_recitals(tree, celex)
          [] kind = "TextOnly" ->
                 _extract_text_only_units(tree, celex, Flags(TRUE, FALSE, FALSE))
          [] OTHER -> Extracted(<<>>))

\* lines 773-782
ExtractArticles(tree, celex) ==
    Bind(Detect(tree), LAMBDA kind :
        CASE kind = "Standard" -> _extract_standard_structure_articles(tree, celex)
          [] kind = "Manual"   -> _extract_manual_structure_articles(tree, celex)
          [] kind = "TextOnly" ->
                 _extract_text_only_units(tree, celex, Flags(FALSE, TRUE, FALSE))
          [] OTHER -> Extracted(<<>>))

\* lines 788-797
ExtractAnnexes(tree, celex) ==
    Bind(Detect(tree), LAMBDA kind :
        CASE kind = "Standard" -> _extract_standard_structure_annexes(tree, celex)
          [] kind = "Manual"   -> _extract_manual_structure_annexes(tree, celex)
          [] kind = "TextOnly" ->
                 _extract_text_only_units(tree, celex, Flags(FALSE, FALSE, TRUE))
          [] OTHER -> Extracted(<<>>))

NoAux == [t |-> "None"]

\* the three blocks in another order: a plausible slip
Collect_AnnexesFirst(rec, art, anx) == anx \o art \o rec

\* units.extend(...) of lines 761-767, 776-782, 791-797, in program order
Collect(rec, art, anx) == rec \o art \o anx

\* lines 758-804
Assemble(m, celex, flags, tree, recitals_tree, annexes_tree) ==
    Bind(IF flags.recitals THEN ExtractRecitals(recitals_tree, celex) ELSE Extracted(<<>>),
         LAMBDA rec :
    Bind(IF flags.articles THEN ExtractArticles(tree, celex) ELSE Extracted(<<>>),
         LAMBDA art :
    Bind(IF flags.annexes THEN ExtractAnnexes(annexes_tree, celex) ELSE Extracted(<<>>),
         LAMBDA anx :
        [m |-> m, exc |-> "none", val |-> List(Collect(rec.units, art.units, anx.units)),
         aux |-> [t |-> "units",
                  tree |-> tree, recitals_tree |-> recitals_tree, annexes_tree |-> annexes_tree,
                  routine |-> [recitals |-> IF flags.recitals THEN Detect(recitals_tree) ELSE "Skip",
                               articles |-> IF flags.articles THEN Detect(tree) ELSE "Skip",
                               annexes |-> IF flags.annexes THEN Detect(annexes_tree) ELSE "Skip"],
                  raised |-> [recitals |-> rec.raised, articles |-> art.raised,
                              annexes |-> anx.raised]]])))

\* lines 690-703: the main document
MainTree(m, r) ==
    Bind(raw_full_text_xhtml(m, r), LAMBDA x :
        ParseWithFallback(x, raw_full_text_plain_html(x.m, r), NoTree, r, "xhtml", "plain"))

\* lines 705-727: the document the recitals are taken from
RecitalsTree(main, r, flags) ==
    IF flags.recitals /\ is_consolidated_celex(CelexOf(r))
    THEN Bind(get_original_data_resolver_for_consolidated(main.m), LAMBDA o :
         Bind(raw_full_text_xhtml(o.m, o.r), LAMBDA x :
             ParseWithFallback(x, raw_full_text_plain_html(x.m, o.r),
                               main.tree, o.r, "xhtml", "plain")))
    ELSE [m |-> main.m, tree |-> main.tree, ok |-> TRUE]

\* lines 729-752: the document the annexes are taken from
AnnexesTree(rct, main, r, flags) ==
    IF ~ flags.annexes THEN [m |-> rct.m, tree |-> main.tree, ok |-> TRUE]
    ELSE Bind(get_document_type(rct.m, r), LAMBDA dt :
             IF dt.val.s = <<"proposal">>
             THEN Bind(Fetch(dt.m, r, "annex_xhtml"), LAMBDA x :
                      ParseWithFallback(x, Fetch(x.m, r, "annex_plain"),
                                        main.tree, r, "annex_xhtml", "annex_plain"))
             ELSE [m |-> dt.m, tree |-> main.tree, ok |-> TRUE])

\* get_text_units without the test of lines 685-687: a plausible slip
get_text_units_NoShortcut(m, r, flags) ==
    Bind(MainTree(m, r), LAMBDA main :
        IF ~ main.ok
        THEN [m |-> main.m, exc |-> "none", val |-> List(<<>>), aux |-> NoAux]
        ELSE Bind(RecitalsTree(main, r, flags), LAMBDA rct :
             Bind(AnnexesTree(rct, main, r, flags), LAMBDA anx :
                 Assemble(anx.m, CelexOf(r), flags, main.tree, rct.tree, anx.tree))))

\* lines 681-804
get_text_units(m, r, flags) ==
    IF ~ (flags.recitals \/ flags.articles \/ flags.annexes)
    THEN [m |-> m, exc |-> "none", val |-> List(<<>>), aux |-> NoAux]
    ELSE Bind(MainTree(m, r), LAMBDA main :
         IF ~ main.ok
         THEN [m |-> main.m, exc |-> "none", val |-> List(<<>>), aux |-> NoAux]
         ELSE Bind(RecitalsTree(main, r, flags), LAMBDA rct :
              Bind(AnnexesTree(rct, main, r, flags), LAMBDA anx :
                  Assemble(anx.m, CelexOf(r), flags, main.tree, rct.tree, anx.tree))))

(***************************************************************************)
(* get_relations (data_resolver.py:806-841)                                *)
(***************************************************************************)
Relation(source, target, type) ==
    [celex_source |-> source, celex_target |-> target, relation_type |-> type]

\* lines 818-824: the records of one relation type
RECURSIVE TargetRecords(_, _, _)
TargetRecords(source, type, targets) ==
    IF targets = <<>> THEN <<>>
    ELSE (IF Head(targets) # <<>> THEN <<Relation(source, Head(targets), type)>> ELSE <<>>)
         \o TargetRecords(source, type, Tail(targets))

\* lines 815-824: the loop over the mapping; len() of a value that is not a
\* sequence raises TypeError and leaves the records built so far
RECURSIVE MappingRecords(_, _, _)
MappingRecords(source, items, acc) ==
    IF items = <<>> THEN [rels |-> acc, exc |-> "none"]
    ELSE IF Head(items).bad THEN [rels |-> acc, exc |-> "TypeError"]
    ELSE MappingRecords(source, Tail(items),
                        acc \o TargetRecords(source, Head(items).type, Head(items).targets))

\* lines 812-824 and the handler of line 838
BaseRelations(m, r) ==
    Bind(sparql_query_result(m, r), LAMBDA q :
        IF q.exc # "none" THEN [m |-> q.m, rels |-> <<>>, exc |-> q.exc]
        ELSE IF q.val.relations.t = "absent" THEN [m |-> q.m, rels |-> <<>>, exc |-> "KeyError"]
        ELSE Bind(MappingRecords(CelexOf(r), q.val.relations.items, <<>>), LAMBDA b :
                 [m |-> q.m, rels |-> b.rels, exc |-> b.exc]))

\* the original act's records put first: a plausible slip
get_relations_OriginalFirst(m, r, include_relations, include_original) ==
    IF ~ include_relations THEN [m |-> m, exc |-> "none", val |-> List(<<>>), aux |-> NoAux]
    ELSE Bind(BaseRelations(m, r), LAMBDA b :
         IF b.exc # "none" \/ ~ (include_original /\ is_consolidated_celex(CelexOf(r)))
         THEN [m |-> b.m, exc |-> "none", val |-> List(b.rels),
               aux |-> [t |-> "relations", base |-> b.exc]]
         ELSE Bind(get_original_data_resolver_for_consolidated(b.m), LAMBDA o :
              Bind(BaseRelations(o.m, o.r), LAMBDA ob :
                  [m |-> ob.m, exc |-> "none", val |-> List(ob.rels \o b.rels),
                   aux |-> [t |-> "relations", base |-> b.exc]])))

\* The original act's resolver is never a consolidated one, so its own
\* get_relations() (default arguments) is the base loop.
get_relations(m, r, include_relations, include_original) ==
    IF ~ include_relations THEN [m |-> m, exc |-> "none", val |-> List(<<>>), aux |-> NoAux]
    ELSE Bind(BaseRelations(m, r), LAMBDA b :
         IF b.exc # "none" \/ ~ (include_original /\ is_consolidated_celex(CelexOf(r)))
         THEN [m |-> b.m, exc |-> "none", val |-> List(b.rels),
               aux |-> [t |-> "relations", base |-> b.exc]]
         ELSE Bind(get_original_data_resolver_for_consolidated(b.m), LAMBDA o :
              Bind(BaseRelations(o.m, o.r), LAMBDA ob :
                  [m |-> ob.m, exc |-> "none", val |-> List(b.rels \o ob.rels),
                   aux |-> [t |-> "relations", base |-> b.exc]])))

(***************************************************************************)
(* The accessors as actions on the resolver constructed for celex_id.      *)
(***************************************************************************)
Now == [res |-> res, child |-> child, tr |-> <<>>]

\* requests sent during a call, for resolver r and endpoint ep
Sent(tr, r, ep) == Cardinality({i \in 1..Len(tr) : tr[i].r = r /\ tr[i].ep = ep /\ tr[i].net})

\* fetches counts up to MaxCalls and stays there
Count(n, k) == IF n + k > MaxCalls THEN MaxCalls ELSE n + k

Return(op, args, out, aux) ==
    /\ res' = out.m.res
    /\ child' = out.m.child
    /\ fetches' = [r \in Resolvers |-> [ep \in Endpoints |->
                       Count(fetches[r][ep], Sent(out.m.tr, r, ep))]]
    /\ last' = [op |-> op, args |-> args, exc |-> out.exc, val |-> out.val,
                tr |-> out.m.tr, aux |-> aux]
    /\ UNCHANGED <<celex_id, remote, run, store>>

NoArgs == [t |-> "None"]

GetTitle == Return("get_title", NoArgs, get_title(Now, "self"), NoAux)

GetDocumentType == Return("get_document_type", NoArgs, get_document_type(Now, "self"), NoAux)

GetDateAdopted == Return("get_date_adopted", NoArgs, get_date_adopted(Now, "self"), NoAux)

GetFullTextHtml == Return("get_full_text_html", NoArgs, get_full_text_html(Now, "self"), NoAux)

\* an accessor whose outcome carries notes on how it was computed
ReturnNoted(op, args, out) == Return(op, args, out, out.aux)

GetTextUnits ==
    \E rec \in BOOLEAN, art \in BOOLEAN, anx \in BOOLEAN :
        ReturnNoted("get_text_units", Flags(rec, art, anx),
                    get_text_units(Now, "self", Flags(rec, art, anx)))

GetRelations ==
    \E inc \in BOOLEAN, orig \in BOOLEAN :
        ReturnNoted("get_relations", [include_relations |-> inc, include_original |-> orig],
                    get_relations(Now, "self", inc, orig))

\* a call of a function of utils.py: it leaves the resolver as it is
Called(exc, v) == [m |-> Now, exc |-> exc, val |-> v]

ConvertConsolidated ==
    Return("convert_consolidated_celex_to_original", Str(celex_id),
           Called(convert_consolidated_celex_to_original(celex_id).exc,
                  Str(convert_consolidated_celex_to_original(celex_id).val)),
           NoAux)

NormalizeString(texts) ==
    \E text \in texts :
        Return("normalize_string", Str(text), Called("none", Str(normalize_string(text))),
               NoAux)

(***************************************************************************)
(* What the repository may answer.                                         *)
(***************************************************************************)
Regulation == <<"3", "2", "0", "1", "6", "R", "0", "6", "7", "9">>

ConsolidatedRegulation ==
    <<"0", "2", "0", "1", "6", "R", "0", "6", "7", "9", "-",
      "2", "0", "2", "1", "0", "1", "0", "1">>

Proposal == <<"5", "2", "0", "2", "1", "P", "C", "0", "2", "0", "6">>

SeqsUpTo(S, n) == UNION {[1..k -> S] : k \in 0..n}

Absent == [t |-> "absent"]

Dict(title, date, relations) ==
    [t |-> "dict", title |-> title, date |-> date, relations |-> relations]

Mapping(items) == [t |-> "map", items |-> items]

Entry(type, targets) == [type |-> type, targets |-> targets, bad |-> FALSE]

Metadata(title, date) == [t |-> "xml", title |-> title, date |-> date]

Malformed == [t |-> "malformed"]

DateFields(y, m, d) == [y |-> y, m |-> m, d |-> d]

Bytes(wf, doc) == [t |-> "bytes", wf |-> wf, utf8 |-> TRUE, doc |-> doc]

NoHeading == [t |-> "none"]

Heading(nodes) == [t |-> "div", nodes |-> nodes]

Doc(head, body) == [head |-> head, body |-> body]

Offline == [ep \in Endpoints |-> Fail]

\* texts
Ta == <<"a">>

Tb == <<"b">>

StandardElems ==
    { Div("rct_", <<"1">>, <<Child("oj-normal", <<"(1", ")", " ", "a">>)>>),
      Div("art_", <<"1">>, <<Child("oj-ti-art", <<"Article", " ", "1">>),
                             Child("eli-title", Tb), Child("oj-normal", Ta)>>),
      Div("anx_", <<"I">>, <<Child("oj-doc-ti", <<"ANNEX", " ", "I">>),
                             Child("oj-doc-ti", Tb), Child("oj-normal", Ta)>>) }

ManualElems ==
    { PNum("li ManualConsidrant", <<"(1", ")">>, <<"(1", ")", " ", "a">>),
      PBr("Titrearticle", <<"Article", " ", "1">>, Tb),
      P("Titrearticle", <<"Article", " ", "2">>),
      P("Titrearticle", Tb),
      P("Annexetitre", <<"ANNEX", " ", "I">>),
      P("NormalCentered", Tb),
      P("Normal", Ta) }

Paragraphs ==
    { <<"Whereas", " ", "a">>, <<"Article", " ", "1">>,
      <<"ANNEX", " ", "I">>, <<"Annexes", " ", "a">>, Ta }

SampleTexteOnly ==
    TexteOnly(<< <<"Whereas", " ", "a">>, <<"Article", " ", "1">>, Ta, <<"ANNEX", " ", "I">>, Tb >>)

\* bodies of one grammar, bodies that mix two grammars, and one body per
\* grammar that has a unit of each type
Bodies ==
    SeqsUpTo(StandardElems \cup ManualElems, MaxElems)
    \cup { <<TexteOnly(ps)>> : ps \in SeqsUpTo(Paragraphs, MaxParas) }
    \cup { <<e, SampleTexteOnly>> : e \in StandardElems \cup ManualElems }

StandardBody ==
    << Div("rct_", <<"1">>, <<Child("oj-normal", Ta)>>),
       Div("rct_", <<"2">>, <<Child("oj-normal", Tb)>>),
       Div("art_", <<"1">>, <<Child("eli-title", Tb), Child("oj-normal", Ta)>>),
       Div("art_", <<"1", "_", "p">>, <<Child("oj-normal", Ta)>>),
       Div("anx_", <<"I">>, <<Child("oj-doc-ti", <<"ANNEX", " ", "I">>),
                              Child("oj-normal", Ta)>>) >>

ManualBody ==
    << PNum("li ManualConsidrant", <<"(2", ")">>, <<"(2", ")", " ", "b">>),
       PBr("Titrearticle", <<"Article", " ", "2">>, Tb),
       P("Normal", Ta),
       P("Annexetitre", <<"ANNEX", " ", "II", " ", "b">>) >>

UnrecognizedBody == << P("Normal", Ta) >>

SampleBodies == {StandardBody, ManualBody, <<SampleTexteOnly>>, UnrecognizedBody}

\* answers of a markup endpoint: no answer, bytes that no parser accepts,
\* bytes only the HTML parser accepts, well-formed XHTML
Markup(bodies) ==
    {Fail, Bytes("junk", Doc(NoHeading, <<>>))}
    \cup {Bytes(wf, Doc(NoHeading, b)) : wf \in {"xml", "html"}, b \in bodies}

PlainDict == Dict(Str(Ta), Absent, Mapping(<<>>))

(***************************************************************************)
(* Initial states: the resolver as constructed (data_resolver.py:72-82),   *)
(* for each repository the specification considers.                        *)
(***************************************************************************)
Constructed ==
    /\ res = [r \in Resolvers |-> EmptyMemo]
    /\ child = FALSE
    /\ fetches = [r \in Resolvers |-> [ep \in Endpoints |-> 0]]
    /\ last = [op |-> "__init__", args |-> NoArgs, exc |-> "none", val |-> NoneV,
               tr |-> <<>>, aux |-> NoAux]
    /\ run = NoRun
    /\ store = EmptyStore

\* text units: every body as the XHTML of a regulation; the fallbacks to
\* plain HTML, to the original act and to the annex endpoint over the
\* sample bodies
InitUnits ==
    /\ Constructed
    /\ \/ /\ celex_id = Regulation
          /\ \E b \in Bodies :
                remote = [r \in Resolvers |->
                    IF r = "self"
                    THEN [Offline EXCEPT !.xhtml = Bytes("xml", Doc(NoHeading, b))]
                    ELSE Offline]
       \/ /\ celex_id = Regulation
          /\ \E x \in Markup(SampleBodies), p \in Markup({ManualBody, UnrecognizedBody}) :
                remote = [r \in Resolvers |->
                    IF r = "self" THEN [Offline EXCEPT !.xhtml = x, !.plain = p]
                    ELSE Offline]
       \/ /\ celex_id = ConsolidatedRegulation
          /\ \E b \in {StandardBody, <<SampleTexteOnly>>},
                x \in Markup(SampleBodies), p \in Markup({ManualBody}) :
                remote = [r \in Resolvers |->
                    IF r = "self"
                    THEN [Offline EXCEPT !.xhtml = Bytes("xml", Doc(NoHeading, b))]
                    ELSE [Offline EXCEPT !.xhtml = x, !.plain = p]]
       \/ /\ celex_id = Proposal
          /\ \E b \in {ManualBody, StandardBody},
                x \in Markup(SampleBodies), p \in Markup({ManualBody}) :
                remote = [r \in Resolvers |->
                    IF r = "self"
                    THEN [Offline EXCEPT !.xhtml = Bytes("xml", Doc(NoHeading, b)),
                                         !.annex_xhtml = x, !.annex_plain = p]
                    ELSE Offline]

\* titles: empty, blank, to be normalized, with a date phrase that is a
\* date, with one that is no calendar date, with one whose month is no month
\* name
TitlePhrase(day, month) == <<"a", " ", day, " ", month, " ", "2016", " ", ",", "b">>

Titles ==
    { <<>>, <<" ">>, <<" ", "a", " ", ",", "b">>,
      TitlePhrase("27", "February"), TitlePhrase("31", "April"), TitlePhrase("27", "Apr") }

MetadataTitles == {NoneV, Str(<<>>), Str(<<" ">>), Str(<<"b", " ">>)}

Headings ==
    { NoHeading, Heading(<< <<" ">> >>), Heading(<< Ta, <<" ">>, <<",", "b">> >>) }

QueryDates ==
    { Absent, Str(<<>>), Date(2016, 4, 27), Str(<<2016, 4, 26>>),
      Str(<<2016, NonNumeric, 1>>), Str(<<2016, 2, 30>>), Str(<<2016, 4>>) }

MetadataDates ==
    { NoneV, DateFields(2016, Missing, 1), DateFields(2016, NonNumeric, 1),
      DateFields(2016, 13, 32), DateFields(2015, 1, 2) }

\* titles: every answer of the three title sources of a regulation
InitTitle ==
    /\ Constructed
    /\ celex_id = Regulation
    /\ \E q \in {Fail, Dict(Absent, Absent, Mapping(<<>>))}
                 \cup {Dict(Str(t), Absent, Mapping(<<>>)) : t \in Titles},
          x \in {Fail, Malformed} \cup {Metadata(t, NoneV) : t \in MetadataTitles},
          h \in {Fail, Bytes("junk", Doc(NoHeading, <<>>))}
                 \cup {Bytes("xml", Doc(hd, <<>>)) : hd \in Headings} :
          remote = [r \in Resolvers |->
              IF r = "self" THEN [Offline EXCEPT !.sparql = q, !.meta = x, !.xhtml = h]
              ELSE Offline]

DateTitles ==
    { Absent, Str(Ta), Str(TitlePhrase("27", "February")),
      Str(TitlePhrase("31", "April")), Str(TitlePhrase("27", "Apr")) }

DateMetadata == {Fail, Malformed} \cup {Metadata(NoneV, d) : d \in MetadataDates}

\* dates: every answer of the date sources, for a regulation and for a
\* consolidated text (with the answers for its original act)
InitDate ==
    /\ Constructed
    /\ \/ /\ celex_id = Regulation
          /\ \E q \in {Fail} \cup {Dict(t, d, Mapping(<<>>)) : t \in DateTitles, d \in QueryDates},
                x \in DateMetadata :
                remote = [r \in Resolvers |->
                    IF r = "self" THEN [Offline EXCEPT !.sparql = q, !.meta = x]
                    ELSE Offline]
       \/ /\ celex_id = ConsolidatedRegulation
          /\ \E q \in {Fail} \cup {Dict(Absent, d, Mapping(<<>>)) : d \in QueryDates},
                x \in DateMetadata,
                sq \in {Fail} \cup {Dict(t, d, Mapping(<<>>)) :
                                     t \in DateTitles, d \in {Absent, Date(2021, 1, 1)}} :
                remote = [r \in Resolvers |->
                    IF r = "self" THEN [Offline EXCEPT !.sparql = sq]
                    ELSE [Offline EXCEPT !.sparql = q, !.meta = x]]

SampleRelations ==
    Mapping(<< Entry("cites", << Regulation, <<>>, Proposal >>),
               Entry("amends", << Regulation >>) >>)

GoodDict == Dict(Str(TitlePhrase("27", "February")), Str(<<2016, 4, 26>>), SampleRelations)

GoodMetadata == Metadata(Str(Tb), DateFields(2015, 1, 2))

GoodMarkup == Bytes("xml", Doc(Heading(<<Ta>>), StandardBody))

Queries == {Fail, Dict(Absent, Absent, Absent), GoodDict}

Metadatas == {Fail, Malformed, GoodMetadata}

Junk == Bytes("junk", Doc(NoHeading, <<>>))

Markups == {Fail, Junk, GoodMarkup, [GoodMarkup EXCEPT !.utf8 = FALSE]}

\* every combination of failing and answering endpoints
InitAll ==
    /\ Constructed
    /\ \/ /\ celex_id = Regulation
          /\ \E q \in Queries, x \in Metadatas, h \in Markups, p \in {Fail, GoodMarkup} :
                remote = [r \in Resolvers |->
                    IF r = "self"
                    THEN [Offline EXCEPT !.sparql = q, !.meta = x, !.xhtml = h, !.plain = p]
                    ELSE Offline]
       \/ /\ celex_id = Proposal
          /\ \E ah \in {Fail, Junk, GoodMarkup}, ap \in {Fail, GoodMarkup} :
                remote = [r \in Resolvers |->
                    IF r = "self"
                    THEN [Offline EXCEPT !.sparql = GoodDict, !.xhtml = GoodMarkup,
                                         !.annex_xhtml = ah, !.annex_plain = ap]
                    ELSE Offline]
       \/ /\ celex_id = ConsolidatedRegulation
          /\ \E q \in {Fail, GoodDict}, x \in {Fail, GoodMetadata}, h \in {Fail, GoodMarkup},
                s \in {Fail, GoodDict} :
                remote = [r \in Resolvers |->
                    IF r = "self"
                    THEN [Offline EXCEPT !.sparql = s, !.xhtml = GoodMarkup]
                    ELSE [Offline EXCEPT !.sparql = q, !.meta = x, !.xhtml = h]]

Next ==
    \/ GetTitle
    \/ GetDocumentType
    \/ GetDateAdopted
    \/ GetFullTextHtml
    \/ GetTextUnits
    \/ GetRelations

Spec == InitAll /\ [][Next]_vars

NextTitle == GetTitle \/ GetDateAdopted \/ GetFullTextHtml

SpecTitle == InitTitle /\ [][NextTitle]_vars

NextDate == GetDateAdopted \/ GetTitle \/ GetDocumentType

SpecDate == InitDate /\ [][NextDate]_vars

NextUnits ==
    \/ GetTextUnits
    \/ GetFullTextHtml

SpecUnits == InitUnits /\ [][NextUnits]_vars

(***************************************************************************)
(* Relations: the mappings the structured query may answer.  A target is   *)
(* an identifier, the empty string or a blank string; BadEntry is a value  *)
(* of a relation type whose len() raises TypeError (a value that is no     *)
(* list), as a replaced get_all_properties can return it.                  *)
(***************************************************************************)
MaxTargets == 2

BadEntry(type) == [type |-> type, targets |-> <<>>, bad |-> TRUE]

Targets == {Regulation, <<>>, <<" ">>}

RelationMaps ==
    {Mapping(<<>>), Mapping(<<BadEntry("cites")>>)}
    \cup {Mapping(<<Entry("cites", ts)>> \o more) :
              ts \in SeqsUpTo(Targets, MaxTargets),
              more \in {<<>>, <<Entry("amends", <<Proposal>>)>>, <<BadEntry("amends")>>}}

SmallMaps ==
    { Mapping(<<>>),
      Mapping(<<Entry("cites", <<Regulation, <<>>, <<" ">> >>)>>),
      Mapping(<<Entry("cites", <<Proposal>>), BadEntry("amends")>>),
      Mapping(<<Entry("amends", <<Proposal>>), Entry("cites", <<Regulation>>)>>) }

RelationAnswers(maps) == {Fail} \cup {Dict(Absent, Absent, mp) : mp \in maps}

InitRelations ==
    /\ Constructed
    /\ \/ /\ celex_id = Regulation
          /\ \E q \in RelationAnswers(RelationMaps) :
                remote = [r \in Resolvers |->
                    IF r = "self" THEN [Offline EXCEPT !.sparql = q] ELSE Offline]
       \/ /\ celex_id = ConsolidatedRegulation
          /\ \E q \in RelationAnswers(SmallMaps), o \in RelationAnswers(SmallMaps) :
                remote = [r \in Resolvers |->
                    IF r = "self" THEN [Offline EXCEPT !.sparql = q]
                    ELSE [Offline EXCEPT !.sparql = o]]

NextRelations == GetRelations \/ GetTitle

SpecRelations == InitRelations /\ [][NextRelations]_vars

(***************************************************************************)
(* Identifiers: strings around the identifier grammar (sector, year, type  *)
(* code, serial, suffix), not normalized ones, and strings too short to    *)
(* hold a type code.  Every endpoint answers.                              *)
(***************************************************************************)
Paddings == {<<>>, <<" ">>}

Sectors == {"0", "3", "x"}

TypeCodes == {<<"R">>, <<"r">>, <<"L">>, <<"D">>, <<"X">>, <<"P", "C">>, <<"D", "C">>}

Serials == {<<"0", "6", "7", "9">>, <<"0", "6">>}

Suffixes ==
    {<<>>, <<"-", "2", "0", "2", "1", "0", "1", "0", "1">>, <<"-", "2", "0", "2", "1">>}

ShortIds == {<<>>, <<"0">>, <<"3", "2">>}

Ids ==
    ShortIds
    \cup {lead \o <<sector, "2", "0", "1", "6">> \o code \o serial \o suffix \o trail :
              lead \in Paddings, sector \in Sectors, code \in TypeCodes,
              serial \in Serials, suffix \in Suffixes, trail \in Paddings}

Online ==
    [ep \in Endpoints |->
        CASE ep = "sparql" -> GoodDict
          [] ep = "meta" -> GoodMetadata
          [] OTHER -> GoodMarkup]

InitIds ==
    /\ Constructed
    /\ celex_id \in Ids
    /\ remote = [r \in Resolvers |-> Online]

NextIds ==
    \/ GetDocumentType
    \/ GetTitle
    \/ GetRelations
    \/ ConvertConsolidated

SpecIds == InitIds /\ [][NextIds]_vars

(***************************************************************************)
(* Texts: every sequence of at most MaxLen tokens over a blank, a          *)
(* punctuation mark that takes no space before it, a closing bracket and   *)
(* a word.                                                                 *)
(***************************************************************************)
MaxLen == 4

Tokens == {" ", ",", ")", "a"}

Texts == SeqsUpTo(Tokens, MaxLen)

InitText ==
    /\ Constructed
    /\ celex_id = Regulation
    /\ remote = [r \in Resolvers |-> Offline]

NextText == NormalizeString(Texts)

SpecText == InitText /\ [][NextText]_vars

(***************************************************************************)
(* Properties.                                                             *)
(***************************************************************************)
Units == last.val.items

OfType(units, type) == SelectSeq(units, LAMBDA u : u.type = type)

Sections == {"recitals", "articles", "annexes"}

SectionType == [recitals |-> "recital", articles |-> "article", annexes |-> "annex"]

ReturnedUnits == last.op = "get_text_units" /\ last.aux.t = "units"

\* C1: whatever endpoints fail and whatever markup does not parse, no
\* accessor call lets an exception escape.
C1_AccessorsNeverRaise == last.exc = "none"

\* every endpoint of the resolver fails, and the accessors that need them
\* returned all the same
C1_Witness_AllEndpointsFail ==
    /\ \A ep \in Endpoints : remote["self"][ep] = Fail
    /\ last.op \in {"get_date_adopted", "get_text_units", "get_relations"}
    /\ last.tr # <<>>
    /\ last.exc = "none"

\* The three title sources of the resolver, as the repository answers them:
\* the raw titles of the structured query and of the metadata, the heading
\* title of the XHTML; empty when the source fails or has none.
QueryTitle ==
    LET q == remote["self"].sparql
    IN  IF q.t = "dict" /\ q.title.t = "str" THEN q.title.s ELSE <<>>

MetadataTitle ==
    LET x == remote["self"].meta
    IN  IF x.t = "xml" /\ x.title.t = "str" THEN x.title.s ELSE <<>>

XhtmlTitle ==
    LET h == remote["self"].xhtml
    IN  IF h.t = "bytes" /\ h.wf = "xml" THEN HeadingTitle(h.doc) ELSE <<>>

TitleSources == <<QueryTitle, MetadataTitle, XhtmlTitle>>

TitleEndpoints == <<"sparql", "meta", "xhtml">>

FirstTitle ==
    IF QueryTitle # <<>> THEN normalize_string(QueryTitle)
    ELSE IF MetadataTitle # <<>> THEN normalize_string(MetadataTitle)
    ELSE IF XhtmlTitle # <<>> THEN XhtmlTitle
    ELSE Unavailable

MemoizedLookups == {"xhtml", "plain", "meta", "sparql"}

\* the request of resolver r to endpoint ep returns (and, for the metadata,
\* its answer parses)
Answers(r, ep) ==
    /\ remote[r][ep].t # "fail"
    /\ ~ (ep = "meta" /\ remote[r][ep].t = "malformed")

\* C3 as stated: each of the four lookups is requested at most once per
\* instance, whatever its outcome.
C3_EachLookupAtMostOnce ==
    \A r \in Resolvers, ep \in MemoizedLookups : fetches[r][ep] <= 1

\* C3 as the program has it: a lookup whose request returns is requested at
\* most once per instance.
C3_AnsweredLookupAtMostOnce ==
    \A r \in Resolvers, ep \in MemoizedLookups : Answers(r, ep) => fetches[r][ep] <= 1

\* a lookup that had been answered was needed again and served from the memo
C3_Witness_ServedFromMemo ==
    \E r \in Resolvers, ep \in MemoizedLookups :
        /\ Answers(r, ep)
        /\ fetches[r][ep] = 1
        /\ \E i \in 1..Len(last.tr) : last.tr[i] = [r |-> r, ep |-> ep, net |-> FALSE]

\* C4: get_date_adopted of a consolidated identifier consults sources of the
\* original act's resolver only.
C4_DateOnlyFromOriginal ==
    (last.op = "get_date_adopted" /\ is_consolidated_celex(celex_id)) =>
        \A i \in 1..Len(last.tr) : last.tr[i].r = "orig"

\* C5: the recital units get_text_units returns for a consolidated
\* identifier all come from the original act's document.
C5_RecitalsOnlyFromOriginal ==
    (last.op = "get_text_units" /\ is_consolidated_celex(celex_id) /\ last.args.recitals) =>
        \A i \in 1..Len(Units) : Units[i].type = "recital" => Units[i].src.r = "orig"

\* C6: when the routine of a section raised, get_text_units returns no unit
\* of the section's type, and the units of the other types are those of the
\* call without that section.
C6_RaisedSectionIsEmpty ==
    ReturnedUnits =>
        \A sec \in Sections : last.aux.raised[sec] =>
            /\ OfType(Units, SectionType[sec]) = <<>>
            /\ LET alt == get_text_units(Now, "self", [last.args EXCEPT ![sec] = FALSE])
               IN  \A other \in Sections \ {sec} :
                       OfType(Units, SectionType[other])
                           = OfType(alt.val.items, SectionType[other])

\* C7: no paragraph of a text-only container went into two of the units
\* get_text_units returns.
C7_ParagraphInOneUnit ==
    last.op = "get_text_units" =>
        \A i, j \in 1..Len(Units) :
            (i < j /\ Units[i].src = Units[j].src) => Units[i].used \cap Units[j].used = {}

DetectorOrder == <<"Standard", "Manual", "TextOnly">>

Satisfies(kind, doc) ==
    CASE kind = "Standard" -> is_standard_structure(doc)
      [] kind = "Manual"   -> is_manual_structure(doc)
      [] kind = "TextOnly" -> is_text_only_structure(doc)

\* the first detector of the order that the document satisfies
FirstSatisfied(doc) ==
    IF \E k \in 1..3 : Satisfies(DetectorOrder[k], doc)
    THEN DetectorOrder[CHOOSE k \in 1..3 :
                           /\ Satisfies(DetectorOrder[k], doc)
                           /\ \A j \in 1..(k - 1) : ~ Satisfies(DetectorOrder[j], doc)]
    ELSE "None"

SectionTree(sec) ==
    CASE sec = "recitals" -> last.aux.recitals_tree
      [] sec = "articles" -> last.aux.tree
      [] sec = "annexes"  -> last.aux.annexes_tree

\* what the routine of a structure kind returns for a section
RoutineUnits(kind, sec, tree) ==
    CASE kind = "Standard" /\ sec = "recitals" ->
             _extract_standard_structure_recitals(tree, celex_id).units
      [] kind = "Standard" /\ sec = "articles" ->
             _extract_standard_structure_articles(tree, celex_id).units
      [] kind = "Standard" /\ sec = "annexes" ->
             _extract_standard_structure_annexes(tree, celex_id).units
      [] kind = "Manual" /\ sec = "recitals" ->
             _extract_manual_structure_recitals(tree, celex_id).units
      [] kind = "Manual" /\ sec = "articles" ->
             _extract_manual_structure_articles(tree, celex_id).units
      [] kind = "Manual" /\ sec = "annexes" ->
             _extract_manual_structure_annexes(tree, celex_id).units
      [] kind = "TextOnly" ->
             _extract_text_only_units(tree, celex_id,
                 Flags(sec = "recitals", sec = "articles", sec = "annexes")).units
      [] OTHER -> <<>>

\* C8: for each requested section the routine applied to the section's tree
\* is that of the first of Standard, Manual, TextOnly the tree satisfies,
\* and a tree that satisfies none gives no unit of the section's type.
C8_FirstDetectorWins ==
    ReturnedUnits =>
        \A sec \in Sections : last.args[sec] =>
            LET kind == FirstSatisfied(SectionTree(sec).doc)
            IN  /\ last.aux.routine[sec] = kind
                /\ OfType(Units, SectionType[sec]) = RoutineUnits(kind, sec, SectionTree(sec))

\* a tree that satisfies two detectors gave units of a requested section
C8_Witness_SeveralDetectors ==
    /\ ReturnedUnits
    /\ \E sec \in Sections :
          /\ last.args[sec]
          /\ Cardinality({k \in 1..3 : Satisfies(DetectorOrder[k], SectionTree(sec).doc)}) >= 2
          /\ OfType(Units, SectionType[sec]) # <<>>

TypeRank == [recital |-> 1, article |-> 2, annex |-> 3]

\* C9: in the sequence get_text_units returns no article precedes a recital
\* and no annex precedes an article or a recital, and units of one type are
\* in the document order of their source elements.
C9_UnitsInSectionAndDocumentOrder ==
    last.op = "get_text_units" =>
        \A i, j \in 1..Len(Units) : i < j =>
            /\ TypeRank[Units[i].type] <= TypeRank[Units[j].type]
            /\ Units[i].type = Units[j].type => Units[i].pos < Units[j].pos

\* units of the three types were returned, two of them of one type
C9_Witness_AllTypes ==
    /\ last.op = "get_text_units"
    /\ \A type \in {"recital", "article", "annex"} : OfType(Units, type) # <<>>
    /\ \E type \in {"recital", "article", "annex"} : Len(OfType(Units, type)) >= 2

\* The three date sources, as the repository answers them; None when the
\* source fails, has no value, or has a value that is no calendar date.
DateResolver == IF is_consolidated_celex(celex_id) THEN "orig" ELSE "self"

QueryDate ==
    LET q == remote[DateResolver].sparql
    IN  IF q.t # "dict" THEN NoneV
        ELSE IF q.date.t = "date" THEN q.date
        ELSE IF q.date.t = "str" /\ Len(q.date.s) = 3
                /\ (\A k \in 1..3 : q.date.s[k] >= 0)
                /\ ValidDate(q.date.s[1], q.date.s[2], q.date.s[3])
             THEN Date(q.date.s[1], q.date.s[2], q.date.s[3])
        ELSE NoneV

MetadataDate ==
    LET x == remote[DateResolver].meta
    IN  IF x.t = "xml" /\ x.date # NoneV
           /\ x.date.y >= 0 /\ x.date.m >= 0 /\ x.date.d >= 0
           /\ ValidDate(x.date.y, x.date.m, x.date.d)
        THEN Date(x.date.y, x.date.m, x.date.d)
        ELSE NoneV

\* the date of the first day-month-year phrase of the title get_title resolves
TitleDate == IF FirstTitle = Unavailable THEN NoneV ELSE DateFromPhrase(FirstTitle).val

\* C10: get_date_adopted returns the date of the first of structured-query
\* date, metadata year/month/day, date phrase of the title that is a
\* calendar date, and None when none is.
C10_DateFallbackChain ==
    last.op = "get_date_adopted" =>
        last.val = IF QueryDate # NoneV THEN QueryDate
                   ELSE IF MetadataDate # NoneV THEN MetadataDate
                   ELSE TitleDate

\* the query has no date, the metadata day and month are out of range, and
\* the date of the title phrase is returned
C10_Witness_TitleAfterBadMetadata ==
    /\ last.op = "get_date_adopted"
    /\ remote[DateResolver].sparql.t = "dict"
    /\ QueryDate = NoneV
    /\ remote[DateResolver].meta.t = "xml"
    /\ remote[DateResolver].meta.date = DateFields(2016, 13, 32)
    /\ TitleDate # NoneV
    /\ last.val = TitleDate

\* C11: whatever the title sources answer (a title, an empty or a blank
\* one, a failure), get_title returns a string that is not empty.
C11_TitleNeverEmpty ==
    last.op = "get_title" => (last.val.t = "str" /\ last.val.s # <<>>)

Records == last.val.items

\* the (type, target) pairs of a mapping, in the order of the mapping
RECURSIVE PairsOf(_)
PairsOf(items) ==
    IF items = <<>> THEN <<>>
    ELSE [k \in 1..Len(Head(items).targets) |-> <<Head(items).type, Head(items).targets[k]>>]
         \o PairsOf(Tail(items))

HasMapping(r) == remote[r].sparql.t = "dict" /\ remote[r].sparql.relations.t = "map"

\* the mapping of resolver r can be read to its end
Readable(r) ==
    /\ HasMapping(r)
    /\ \A i \in 1..Len(remote[r].sparql.relations.items) :
          ~ remote[r].sparql.relations.items[i].bad

\* reading the mapping of resolver r raises after it has begun
BreaksOff(r) == HasMapping(r) /\ ~ Readable(r)

UpstreamPairs(r) == IF Readable(r) THEN PairsOf(remote[r].sparql.relations.items) ELSE <<>>

OwnOnly == ~ (last.args.include_original /\ is_consolidated_celex(celex_id))

RelationsRead == last.op = "get_relations" /\ last.args.include_relations

\* C12: no record has an empty or blank target, and the pairs of the
\* mapping whose target is neither empty nor blank yield one record each.
C12_NoBlankTarget ==
    RelationsRead =>
        /\ \A i \in 1..Len(Records) : Strip(Records[i].celex_target) # <<>>
        /\ (Readable("self") /\ OwnOnly) =>
              Len(Records) = Len(SelectSeq(UpstreamPairs("self"), LAMBDA p : Strip(p[2]) # <<>>))

\* the records the pairs with a non-empty target give, for a source
RecordsOf(source, pairs) ==
    [k \in 1..Len(SelectSeq(pairs, LAMBDA p : p[2] # <<>>)) |->
        Relation(source, SelectSeq(pairs, LAMBDA p : p[2] # <<>>)[k][2],
                 SelectSeq(pairs, LAMBDA p : p[2] # <<>>)[k][1])]

\* C13: with the flag set on a consolidated identifier, get_relations
\* returns the records of its own mapping (source: this identifier) and
\* then those of the original act (source: the original identifier);
\* otherwise every record has this identifier as source.  (For mappings
\* that are read to their end.)
C13_OwnThenOriginal ==
    RelationsRead =>
        IF OwnOnly THEN \A i \in 1..Len(Records) : Records[i].celex_source = celex_id
        ELSE (Readable("self") /\ ~ BreaksOff("orig")) =>
                 Records = RecordsOf(celex_id, UpstreamPairs("self"))
                           \o RecordsOf(original_celex(celex_id), UpstreamPairs("orig"))

\* own records and records of the original act were returned, in that order
C13_Witness_BothSources ==
    /\ RelationsRead
    /\ ~ OwnOnly
    /\ Readable("self") /\ Readable("orig")
    /\ Len(Records) >= 3
    /\ Records[1].celex_source = celex_id
    /\ Records[Len(Records)].celex_source = original_celex(celex_id)
    /\ Records[1].celex_source # Records[Len(Records)].celex_source

C15_NoRequestForInvalid ==
    \A r \in Resolvers :
        validate_celex(CelexOf(r)).exc # "none" =>
            \A ep \in Endpoints : fetches[r][ep] = 0

Converted == last.op = "convert_consolidated_celex_to_original"

\* C16 as stated: the conversion raises ValueError for every string that
\* is_consolidated_celex does not accept.
C16_RejectsWhatIsNotConsolidated ==
    (Converted /\ ~ is_consolidated_celex(last.args.s)) => last.exc = "ValueError"

\* C16 as the program has it: the conversion raises ValueError for every
\* string whose normalized form (stripped, upper case) is_consolidated_celex
\* does not accept.
C16_RejectsWhatDoesNotNormalizeToConsolidated ==
    (Converted /\ ~ is_consolidated_celex(normalize_celex(last.args.s)))
        => last.exc = "ValueError"

\* an identifier of the grammar that is not consolidated was rejected
C16_Witness_PlainIdentifierRejected ==
    /\ Converted
    /\ is_valid_celex(last.args.s)
    /\ ~ is_consolidated_celex(normalize_celex(last.args.s))
    /\ last.exc = "ValueError"

MaxChain == 3

\* the number of resolvers of original acts that can be reached from a
\* resolver for celex, following at most fuel indirections
RECURSIVE ChainLength(_, _)
ChainLength(celex, fuel) ==
    IF fuel = 0 \/ ~ is_consolidated_celex(celex) THEN 0
    ELSE 1 + ChainLength(convert_consolidated_celex_to_original(celex).val, fuel - 1)

\* C17: the conversion of a consolidated identifier returns an identifier
\* that is not consolidated, so at most one resolver of an original act is
\* reachable from a resolver.
C17_OriginalIsNotConsolidated ==
    /\ ChainLength(celex_id, MaxChain) <= 1
    /\ (Converted /\ is_consolidated_celex(last.args.s)) =>
          (last.exc = "none" /\ ~ is_consolidated_celex(last.val.s))

\* a consolidated identifier was converted and its original act resolved
C17_Witness_ConsolidatedConverted ==
    /\ Converted
    /\ is_consolidated_celex(last.args.s)
    /\ last.val.s = Regulation
    /\ ChainLength(celex_id, MaxChain) = 1

\* the letters of the type code of an identifier: the run of capital
\* letters after sector and year
RECURSIVE LetterRun(_, _)
LetterRun(celex, i) ==
    IF i <= Len(celex) /\ celex[i] \in UpperLetters
    THEN <<celex[i]>> \o LetterRun(celex, i + 1) ELSE <<>>

TableType ==
    IF LetterRun(celex_id, 6) \in DOMAIN doc_type_map
    THEN doc_type_map[LetterRun(celex_id, 6)] ELSE Unknown

\* C19: get_document_type returns the table entry of the type code, or
\* "Unknown" for a code that is not in the table and for an identifier too
\* short to have one, with "consolidated" put before it whenever the first
\* character of the identifier is 0.
C19_TypeOfCode ==
    last.op = "get_document_type" =>
        last.val = Str(IF celex_id # <<>> /\ celex_id[1] = "0"
                       THEN <<"consolidated", " ">> \o TableType
                       ELSE TableType)

\* C18: normalizing a normalized text changes nothing.
C18_NormalizeIdempotent ==
    last.op = "normalize_string" => normalize_string(last.val.s) = last.val.s

\* C20: with the three flags false get_text_units returns the empty
\* sequence, consults no source and sends no request.
C20_NothingRequestedNothingFetched ==
    [][(/\ last'.op = "get_text_units"
        /\ ~ (last'.args.recitals \/ last'.args.articles \/ last'.args.annexes))
       => (/\ last'.exc = "none"
           /\ last'.val = List(<<>>)
           /\ last'.tr = <<>>
           /\ fetches' = fetches
           /\ res' = res)]_vars

\* the call with the three flags false was made on a resolver whose
\* document had not been fetched and would have given units
C20_Witness_NothingRequested ==
    /\ last.op = "get_text_units"
    /\ ~ (last.args.recitals \/ last.args.articles \/ last.args.annexes)
    /\ last.val = List(<<>>)
    /\ remote["self"].xhtml.t = "bytes"
    /\ remote["self"].xhtml.doc.body = StandardBody
    /\ res["self"].xhtml = NoneV

\* C26: in what normalize_string returns no whitespace stands immediately
\* before one of , ; : ! ? . ) ] }.
C26_NoSpaceBeforePunctuation ==
    last.op = "normalize_string" =>
        \A i \in 2..Len(last.val.s) :
            ~ (last.val.s[i] \in PunctAfter /\ last.val.s[i - 1] \in WS)

\* C27: once get_title has returned on a resolver (every return stores the
\* title in the memo field), a later get_title call returns the stored
\* value and consults no source.
C27_TitleComputedOnce ==
    [][(res["self"].title # NoneV /\ last'.op = "get_title")
       => (last'.val = res["self"].title /\ last'.tr = <<>>)]_vars

(***************************************************************************)
(* Annexes of the Standard structure: a regulation with one article and    *)
(* one annex element whose direct children are every sequence of at most   *)
(* MaxChildren paragraphs out of a header, two document-title paragraphs   *)
(* and a body paragraph.                                                   *)
(***************************************************************************)
MaxChildren == 3

AnnexChildren ==
    { Child("oj-doc-ti", <<"ANNEX", " ", "I">>), Child("oj-doc-ti", Tb),
      Child("oj-doc-ti", <<"c">>), Child("oj-normal", Ta) }

AnnexBody(ch) ==
    << Div("art_", <<"1">>, <<Child("oj-normal", Ta)>>), Div("anx_", <<"I">>, ch) >>

InitAnnex ==
    /\ Constructed
    /\ celex_id = Regulation
    /\ \E ch \in SeqsUpTo(AnnexChildren, MaxChildren) :
          remote = [r \in Resolvers |->
              IF r = "self"
              THEN [Offline EXCEPT !.xhtml = Bytes("xml", Doc(NoHeading, AnnexBody(ch)))]
              ELSE Offline]

NextAnnex == GetTextUnits

SpecAnnex == InitAnnex /\ [][NextAnnex]_vars

\* the document-title paragraphs among the children of an annex element
DocTitles(ch) == {i \in 1..Len(ch) : ch[i].cls = "oj-doc-ti"}

Headers(ch) == {i \in DocTitles(ch) : AnnexHeader(normalize_string(ch[i].text))}

TitlesAfter(ch, h) == {i \in DocTitles(ch) : i > h}

\* the body text made of the children at the indexes idx
PartsText(ch, idx) ==
    Strip(JoinWith(<<" ">>, [n \in 1..Len(idx) |-> normalize_string(ch[idx[n]].text)]))

\* C23: of the document-title paragraphs of a Standard annex element only
\* the first that matches the header pattern is discarded, the first
\* document-title paragraph after it is the title of the unit, and every
\* other direct child, further document-title paragraphs included, goes
\* into the text of the unit.
C23_OneHeaderOneTitle ==
    (ReturnedUnits /\ last.args.annexes /\ last.aux.routine.annexes = "Standard") =>
        \A n \in 1..Len(Units) :
            (Units[n].type = "annex"
               /\ Headers(last.aux.annexes_tree.doc.body[Units[n].pos].ch) # {}) =>
                LET ch == last.aux.annexes_tree.doc.body[Units[n].pos].ch
                    h  == Least(Headers(ch))
                    ts == TitlesAfter(ch, h)
                    t  == IF ts = {} THEN 0 ELSE Least(ts)
                IN  /\ Units[n].title = (IF t = 0 THEN <<>> ELSE normalize_string(ch[t].text))
                    /\ Units[n].text = PartsText(ch, Ascending((1..Len(ch)) \ {h, t}))

\* C24: in the Manual structure an article-title paragraph without a br
\* element takes the article-title paragraph that follows it as its title
\* only when no article number can be parsed from that paragraph; a
\* following paragraph with a number of its own leaves the title empty.
C24_NumberedSiblingIsNoTitle ==
    (ReturnedUnits /\ last.args.articles /\ last.aux.routine.articles = "Manual") =>
        \A n \in 1..Len(Units) :
            LET body == last.aux.tree.doc.body
                i    == Units[n].pos
            IN  (/\ Units[n].type = "article"
                 /\ ~ body[i].br
                 /\ i < Len(body)
                 /\ body[i + 1].cls = "Titrearticle") =>
                    Units[n].title =
                        (IF ManualArticleNumber(body[i + 1]) = <<>>
                         THEN normalize_string(Strip(JoinWith(<<" ">>, ChildTexts(body[i + 1]))))
                         ELSE <<>>)

\* C25: in the sequence one get_text_units call returns no two units of one
\* type have the same number.
C25_NumbersUniqueWithinType ==
    last.op = "get_text_units" =>
        \A i, j \in 1..Len(Units) :
            (i < j /\ Units[i].type = Units[j].type) => Units[i].number # Units[j].number

(***************************************************************************)
(* The while loops of _extract_text_only_units, one iteration at a time    *)
(* (data_resolver.py:591-673).  The state of the scan is kept in last.aux: *)
(* the cursor i (the index of paragraphs[i], counted from 1), the loop     *)
(* that runs, the paragraph the open unit started at, recital_count and    *)
(* the units built.                                                        *)
(***************************************************************************)
ScanStart == [t |-> "scan", i |-> 1, loop |-> "outer", from |-> 0, count |-> 0, units |-> <<>>]

ScanSource == [r |-> "self", ep |-> "xhtml"]

\* lines 620-625 and 653-657: the test that breaks the inner loop
Breaks(loop, t) == AnnexMatch(t) \/ (loop = "article" /\ ArticleMatch(t))

\* lines 629-638 and 661-670: the unit appended after the inner loop
ClosedUnit(ps, st) ==
    IF st.loop = "article"
    THEN TitledUnit(celex_id, "article", ArticleGroup(PText(ps, st.from)), <<>>,
                    BodyText(ps, st.from + 1, st.i), ScanSource, st.from,
                    st.from..(st.i - 1))
    ELSE TitledUnit(celex_id, "annex", AnnexGroups(PText(ps, st.from)).number,
                    normalize_string(Strip(AnnexGroups(PText(ps, st.from)).title)),
                    BodyText(ps, st.from + 1, st.i), ScanSource, st.from,
                    st.from..(st.i - 1))

\* the article branch without the i += 1 of line 615: a plausible slip
OuterIteration_ArticleStays(ps, flags, st) ==
    Bind(PText(ps, st.i), LAMBDA t :
        IF flags.recitals /\ StartsWhereas(t)
        THEN [st EXCEPT !.i = @ + 1, !.count = @ + 1,
                        !.units = Append(@, RecitalUnit(celex_id, <<DecimalStr[st.count + 1]>>,
                                             normalize_string(t), ScanSource, st.i, {st.i}))]
        ELSE IF flags.articles /\ ArticleMatch(t)
        THEN [st EXCEPT !.loop = "article", !.from = st.i]
        ELSE IF flags.annexes /\ AnnexMatch(t)
        THEN [st EXCEPT !.i = @ + 1, !.loop = "annex", !.from = st.i]
        ELSE [st EXCEPT !.i = @ + 1])

\* one iteration of the outer loop up to the inner loop (lines 591-615,
\* 641-648, 673)
OuterIteration(ps, flags, st) ==
    Bind(PText(ps, st.i), LAMBDA t :
        IF flags.recitals /\ StartsWhereas(t)
        THEN [st EXCEPT !.i = @ + 1, !.count = @ + 1,
                        !.units = Append(@, RecitalUnit(celex_id, <<DecimalStr[st.count + 1]>>,
                                             normalize_string(t), ScanSource, st.i, {st.i}))]
        ELSE IF flags.articles /\ ArticleMatch(t)
        THEN [st EXCEPT !.i = @ + 1, !.loop = "article", !.from = st.i]
        ELSE IF flags.annexes /\ AnnexMatch(t)
        THEN [st EXCEPT !.i = @ + 1, !.loop = "annex", !.from = st.i]
        ELSE [st EXCEPT !.i = @ + 1])

\* one iteration of an inner loop (lines 616-627, 649-659); when the loop
\* ends, the unit is appended and the outer loop continues (lines 629-638,
\* 661-671)
InnerIteration(ps, st) ==
    IF st.i <= Len(ps) /\ ~ Breaks(st.loop, PText(ps, st.i))
    THEN [st EXCEPT !.i = @ + 1]
    ELSE [st EXCEPT !.loop = "outer", !.units = Append(@, ClosedUnit(ps, st))]

ScanTo(op, val, aux) ==
    /\ last' = [op |-> op, args |-> last.args, exc |-> "none", val |-> val,
                tr |-> <<>>, aux |-> aux]
    /\ UNCHANGED <<celex_id, remote, res, child, fetches, run, store>>

Scanned == remote["self"]["xhtml"].doc.body[1].ps

\* the call, with at least one of the three flags true (lines 560-561), up
\* to the first test of the outer loop
ScanBegin ==
    /\ last.op \in {"__init__", "_extract_text_only_units"}
    /\ \E rec \in BOOLEAN, art \in BOOLEAN, anx \in BOOLEAN :
          /\ rec \/ art \/ anx
          /\ last' = [op |-> "scan", args |-> Flags(rec, art, anx), exc |-> "none",
                      val |-> NoneV, tr |-> <<>>, aux |-> ScanStart]
    /\ UNCHANGED <<celex_id, remote, res, child, fetches, run, store>>

ScanOuter ==
    /\ last.op = "scan" /\ last.aux.loop = "outer" /\ last.aux.i <= Len(Scanned)
    /\ ScanTo("scan", NoneV, OuterIteration(Scanned, last.args, last.aux))

ScanInner ==
    /\ last.op = "scan" /\ last.aux.loop # "outer"
    /\ ScanTo("scan", NoneV, InnerIteration(Scanned, last.aux))

\* line 679
ScanReturn ==
    /\ last.op = "scan" /\ last.aux.loop = "outer" /\ last.aux.i > Len(Scanned)
    /\ ScanTo("_extract_text_only_units", List(last.aux.units), last.aux)

InitScan ==
    /\ Constructed
    /\ celex_id = Regulation
    /\ \E ps \in SeqsUpTo(Paragraphs, MaxParas) :
          remote = [r \in Resolvers |->
              IF r = "self"
              THEN [Offline EXCEPT !.xhtml = Bytes("xml", Doc(NoHeading, <<TexteOnly(ps)>>))]
              ELSE Offline]

NextScan == ScanBegin \/ ScanOuter \/ ScanInner \/ ScanReturn

SpecScan == InitScan /\ [][NextScan]_vars

\* a loop iteration can be taken: the guard of ScanOuter \/ ScanInner
Iterating ==
    last.op = "scan" /\ (last.aux.loop # "outer" \/ last.aux.i <= Len(Scanned))

\* The interpreter runs a started scan on: weak fairness of the return and
\* of the loop iterations.  For the iterations it is written out, with
\* Iterating for ENABLED <<ScanOuter \/ ScanInner>>_vars (every iteration
\* changes last.aux).
SpecScanLive ==
    /\ SpecScan
    /\ WF_vars(ScanReturn)
    /\ ([]<>(~ Iterating) \/ []<><<ScanOuter \/ ScanInner>>_vars)

\* C30: every iteration of the outer loop moves the cursor forward, every
\* iteration of an inner loop moves it forward or ends that loop, and a
\* scan that was started returns; what it returns is what the scan gives
\* as a whole.
C30_ScanAdvancesAndReturns ==
    /\ [][(last.op = "scan" /\ last'.op = "scan") =>
            \/ last'.aux.i > last.aux.i
            \/ /\ last.aux.loop # "outer" /\ last'.aux.loop = "outer"
               /\ last'.aux.i = last.aux.i]_vars
    /\ [](last.op = "_extract_text_only_units" =>
            last.val.items =
                _extract_text_only_units(Tree(remote["self"]["xhtml"], "self", "xhtml"),
                                         celex_id, last.args).units)
    /\ ((last.op = "scan") ~> (last.op = "_extract_text_only_units"))

\* a scan that ran both an outer and an inner loop over three paragraphs has
\* returned units
C30_Witness_ScanReturned ==
    /\ last.op = "_extract_text_only_units"
    /\ Len(Scanned) >= 3
    /\ Len(last.val.items) >= 2
    /\ \E n \in 1..Len(last.val.items) : Cardinality(last.val.items[n].used) >= 2

(***************************************************************************)
(* cellar_restapi.py : the choice among the documents of a 300 Multiple    *)
(* Choices response.  An item is (url, stream_name, stream_order); a name  *)
(* and a keyword are sequences of characters.                              *)
(***************************************************************************)
LowerChar(ch) ==
    IF \E i \in 1..26 : UpperSeq[i] = ch
    THEN LowerSeq[CHOOSE i \in 1..26 : UpperSeq[i] = ch]
    ELSE ch

\* str.upper(), str.lower()
Upper(s) == [i \in 1..Len(s) |-> UpperChar(s[i])]

Lower(s) == [i \in 1..Len(s) |-> LowerChar(s[i])]

\* sub in s
Contains(s, sub) ==
    \E k \in 0..(Len(s) - Len(sub)) : SubSeq(s, k + 1, k + Len(sub)) = sub

IncludeBonus == 1000

\* lines 62-84
_score_candidate(item, include_keywords) ==
    IF \E keyword \in include_keywords : Contains(Upper(item.name), Upper(keyword))
    THEN item.order - IncludeBonus
    ELSE item.order

\* lines 151-155
Excluded(item, exclude_keywords) ==
    \E keyword \in exclude_keywords : Contains(Lower(item.name), Lower(keyword))

\* min(candidates, key=...): the first of the candidates with the least score
FirstBest(candidates, include_keywords) ==
    candidates[CHOOSE i \in 1..Len(candidates) :
        /\ \A j \in 1..Len(candidates) :
              _score_candidate(candidates[i], include_keywords)
                  <= _score_candidate(candidates[j], include_keywords)
        /\ \A j \in 1..(i - 1) :
              _score_candidate(candidates[j], include_keywords)
                  > _score_candidate(candidates[i], include_keywords)]

\* lines 120-170
_select_document(items, include_keywords, exclude_keywords) ==
    IF items = <<>> THEN [exc |-> "APIRequestError", val |-> <<>>]
    ELSE Bind(SelectSeq(items, LAMBDA item : ~ Excluded(item, exclude_keywords)),
              LAMBDA candidates :
                  IF candidates = <<>> THEN [exc |-> "none", val |-> items[1].url]
                  ELSE [exc |-> "none", val |-> FirstBest(candidates, include_keywords).url])

SelectDocument(lists, keywords) ==
    \E items \in lists, kw \in keywords :
        Return("_select_document",
               [items |-> items, include_keywords |-> kw.include,
                exclude_keywords |-> kw.exclude],
               Called(_select_document(items, kw.include, kw.exclude).exc,
                      Str(_select_document(items, kw.include, kw.exclude).val)),
               NoAux)

(***************************************************************************)
(* Responses: every list of at most MaxItems items over names with and     *)
(* without the keywords, and over order indexes that are near each other,  *)
(* the default of an item without one, and more than the bonus apart.  The *)
(* keywords are those of the requests for the main document and for the    *)
(* annex (lines 280-281, 328-329), and none.                               *)
(***************************************************************************)
MaxItems == 2

Chars(word) ==
    CASE word = "ACT"         -> <<"A", "C", "T">>
      [] word = "annex"       -> <<"a", "n", "n", "e", "x">>
      [] word = "annexe"      -> <<"a", "n", "n", "e", "x", "e">>
      [] word = "cover"       -> <<"c", "o", "v", "e", "r">>
      [] word = "erratum"     -> <<"e", "r", "r", "a", "t", "u", "m">>
      [] word = "corrigendum" -> <<"c", "o", "r", "r", "i", "g", "e", "n", "d", "u", "m">>
      [] word = "DOC"         -> <<"D", "O", "C">>
      [] word = "EN_act"      -> <<"E", "N", "_", "a", "c", "t">>
      [] word = "Annex_I"     -> <<"A", "n", "n", "e", "x", "_", "I">>

StreamNames == {Chars("DOC"), Chars("ACT"), Chars("EN_act"), Chars("Annex_I")}

StreamOrders == {1, 2, 999, 1001, 1002}

Urls == <<<<"u1">>, <<"u2">>, <<"u3">>, <<"u4">>>>

ItemLists ==
    UNION { { [i \in 1..n |-> [url |-> Urls[i], name |-> names[i], order |-> orders[i]]] :
                names \in [1..n -> StreamNames], orders \in [1..n -> StreamOrders] } :
            n \in 0..MaxItems }

KeywordSets ==
    { [include |-> {Chars("ACT")},
       exclude |-> {Chars(w) : w \in {"annexe", "annex", "cover", "erratum", "corrigendum"}}],
      [include |-> {Chars("annex"), Chars("annexe")},
       exclude |-> {Chars(w) : w \in {"ACT", "cover", "erratum", "corrigendum"}}],
      [include |-> {}, exclude |-> {}] }

InitSelect ==
    /\ Constructed
    /\ celex_id = Regulation
    /\ remote = [r \in Resolvers |-> Offline]

\* one response is answered by one call
NextSelect == last.op = "__init__" /\ SelectDocument(ItemLists, KeywordSets)

SpecSelect == InitSelect /\ [][NextSelect]_vars

\* the items of the call that no exclude keyword drops, and those of them
\* whose name contains an include keyword
Remaining ==
    {i \in 1..Len(last.args.items) :
        ~ Excluded(last.args.items[i], last.args.exclude_keywords)}

Preferred ==
    {i \in Remaining :
        \E keyword \in last.args.include_keywords :
            Contains(Upper(last.args.items[i].name), Upper(keyword))}

LowestOrder(S) ==
    {i \in S : \A j \in S : last.args.items[i].order <= last.args.items[j].order}

\* C21: of the items no exclude keyword drops, _select_document returns one
\* whose name contains an include keyword whenever there is one, whatever
\* the order indexes; the order index decides only among those, or among
\* all remaining items when none contains an include keyword.
C21_IncludeKeywordBeforeOrder ==
    (last.op = "_select_document" /\ Remaining # {}) =>
        /\ last.exc = "none"
        /\ \E i \in LowestOrder(IF Preferred # {} THEN Preferred ELSE Remaining) :
              last.val = Str(last.args.items[i].url)

(***************************************************************************)
(* The store (storage/models.py, storage/storageManager.py).  A table is   *)
(* the sequence of its rows in insertion order.  A save is one INSERT of   *)
(* all the rows it is given followed by a commit; when the INSERT fails    *)
(* the session is rolled back, so none of the rows is kept, and the error  *)
(* is raised again (lines 72-74, 83-85, 94-96).                            *)
(***************************************************************************)
\* models.py:12-17: mapped_column(...) under a Mapped[...] annotation that is
\* not Optional gives a NOT NULL column; nullable=True is set on
\* full_text_html alone
WorkNotNull == {"celex_id", "document_type", "title", "date_adopted", "language"}

\* models.py:12: celex_id is the primary key of works
Keys(rows) == {rows[i].celex_id : i \in 1..Len(rows)}

DuplicateKey(table, rows) ==
    \/ \E i \in 1..Len(rows) : rows[i].celex_id \in Keys(table)
    \/ \E i, j \in 1..Len(rows) : i # j /\ rows[i].celex_id = rows[j].celex_id

NullInNotNull(rows) ==
    \E i \in 1..Len(rows) : \E c \in WorkNotNull : rows[i][c] = NoneV

Saved(st, exc) == [store |-> st, exc |-> exc]

\* StorageManager.save_work (lines 63-74); fault: the database refuses the
\* statement for a reason of its own (locked file, full disk)
save_work(st, work_data, fault) ==
    IF work_data = <<>> THEN Saved(st, "none")
    ELSE IF fault THEN Saved(st, "OperationalError")
    ELSE IF NullInNotNull(work_data) \/ DuplicateKey(st.works, work_data)
         THEN Saved(st, "IntegrityError")
    ELSE Saved([st EXCEPT !.works = @ \o work_data], "none")

\* StorageManager.save_text_units (lines 76-85): the rows get a key of their
\* own from the database and carry no column that can be None
save_text_units(st, text_units, fault) ==
    IF text_units = <<>> THEN Saved(st, "none")
    ELSE IF fault THEN Saved(st, "OperationalError")
    ELSE Saved([st EXCEPT !.text_units = @ \o text_units], "none")

\* StorageManager.save_relations (lines 87-96)
save_relations(st, relations, fault) ==
    IF relations = <<>> THEN Saved(st, "none")
    ELSE IF fault THEN Saved(st, "OperationalError")
    ELSE Saved([st EXCEPT !.relations = @ \o relations], "none")

\* the three saves one after the other, as in _get_data (lines 319-325) and
\* in the batch save of _get_data_parallel (lines 392-394): the first error
\* ends the sequence, what was committed before it stays.  fault is the
\* number of the save the database refuses, 0 for none
SaveAll(st, works, text_units, relations, fault) ==
    Bind(save_work(st, works, fault = 1), LAMBDA w :
        IF w.exc # "none" THEN w
        ELSE Bind(save_text_units(w.store, text_units, fault = 2), LAMBDA u :
        IF u.exc # "none" THEN u
        ELSE save_relations(u.store, relations, fault = 3)))

(***************************************************************************)
(* The pipeline (EULEXBuildPipeline.py).                                   *)
(***************************************************************************)
MaxDocs == 3

MaxRows == 1

MaxWorkers == 2

MaxFaults == 1

\* the least batch size of _calculate_optimal_sizes (50 at line 78), scaled
\* to runs of MaxDocs documents
MinBatch == 2

\* the identifiers of a run: config.data.celex_ids is a set (config_validation.py:42)
RunIds == {Regulation, ConsolidatedRegulation, Proposal}

IdSets == {S \in SUBSET RunIds : S # {} /\ Cardinality(S) <= MaxDocs}

AdoptionDate == Date(2016, 4, 27)

\* what the accessors of one resolver return for a document: its date or
\* None, and so many text units and relations
Outcomes ==
    [date_adopted : {NoneV, AdoptionDate}, text_units : 0..MaxRows, relations : 0..MaxRows]

\* the resolver objects one call of _process_celex_document constructs: the
\* one of line 32, and through get_date_adopted (data_resolver.py:220-221)
\* the one of the original act of a consolidated text (lines 120-124)
Constructs(id) ==
    IF is_consolidated_celex(id) THEN <<id, original_celex(id)>> ELSE <<id>>

\* _process_celex_document (lines 25-44) with the accessors' results given
_process_celex_document(id, o) ==
    [work |-> [celex_id |-> id, title |-> Str(Ta), date_adopted |-> o.date_adopted,
               document_type |-> Str(<<"regulation">>), language |-> Str(<<"eng">>),
               full_text_html |-> NoneV],
     text_units |-> [n \in 1..o.text_units |-> [celex_id |-> id, number |-> n]],
     relations |-> [n \in 1..o.relations |-> [celex_source |-> id, number |-> n]],
     resolvers |-> Constructs(id)]

Ceil(a, b) == (a + b - 1) \div b

Max(a, b) == IF a >= b THEN a ELSE b

Min(a, b) == IF a <= b THEN a ELSE b

\* _calculate_optimal_sizes (lines 64-81)
_calculate_optimal_sizes(num_items, num_workers) ==
    Bind(Min(Max(1, Ceil(num_items, num_workers * 4)), 100), LAMBDA chunksize :
        [chunksize |-> chunksize,
         batch_size |-> Min(Max(MinBatch, chunksize * 2), 500)])

\* the statement a save may be refused at: none once the database has
\* refused MaxFaults statements
Faults == IF store.refused < MaxFaults THEN 0..3 ELSE {0}

Refusals(st, s) ==
    [s.store EXCEPT !.refused = IF s.exc = "OperationalError" THEN @ + 1 ELSE @]

\* run() up to the call of _get_data or _get_data_parallel (lines 137-200),
\* and the locals these set before their loops (301-302, 366-378)
StartRun ==
    /\ run.state = "none"
    /\ \E ids \in IdSets, parallel \in BOOLEAN, workers \in 1..MaxWorkers :
          run' = [state |-> "collecting", parallel |-> parallel, pending |-> ids,
                  batch_size |-> _calculate_optimal_sizes(Cardinality(ids), workers).batch_size,
                  works |-> <<>>, text_units |-> <<>>, relations |-> <<>>,
                  processed |-> 0, failed |-> 0, batch_count |-> 0,
                  resolvers |-> <<>>, exc |-> "none",
                  result |-> NoneV, saved |-> "none"]
    /\ UNCHANGED <<celex_id, remote, res, child, fetches, last, store>>

\* one iteration of the loop of _get_data (lines 304-333)
GetDataIteration(r, st, id, o, fault) ==
    Bind(_process_celex_document(id, o), LAMBDA result :
    Bind(SaveAll(st, <<result.work>>, result.text_units, result.relations, fault),
         LAMBDA s :
        [run |-> [r EXCEPT !.pending = @ \ {id},
                           !.resolvers = @ \o result.resolvers,
                           !.processed = IF s.exc = "none" THEN @ + 1 ELSE @,
                           !.failed = IF s.exc = "none" THEN @ ELSE @ + 1,
                           !.result = result.work,
                           !.saved = s.exc],
         store |-> Refusals(st, s)]))

GetData ==
    /\ run.state = "collecting" /\ ~ run.parallel /\ run.pending # {}
    /\ \E id \in run.pending, o \in Outcomes, fault \in Faults :
          /\ run' = GetDataIteration(run, store, id, o, fault).run
          /\ store' = GetDataIteration(run, store, id, o, fault).store
    /\ UNCHANGED <<celex_id, remote, res, child, fetches, last>>

\* the end of _get_data (lines 335-336)
GetDataReturn ==
    /\ run.state = "collecting" /\ ~ run.parallel /\ run.pending = {}
    /\ run' = [run EXCEPT !.state = "returned"]
    /\ UNCHANGED <<celex_id, remote, res, child, fetches, last, store>>

\* one iteration of the loop of _get_data_parallel (lines 380-403): a result
\* arrives, in any order (imap_unordered, line 374), and is put with the ones
\* not saved yet; a batch that is full is saved, and the lists are emptied
\* after the third save (line 397), which an error in a save steps over
GetDataParallelIteration(r, st, id, o, fault) ==
    Bind(_process_celex_document(id, o), LAMBDA result :
    Bind([r EXCEPT !.pending = @ \ {id},
                   !.resolvers = @ \o result.resolvers,
                   !.works = Append(@, result.work),
                   !.text_units = @ \o result.text_units,
                   !.relations = @ \o result.relations,
                   !.processed = @ + 1,
                   !.result = result.work,
                   !.saved = "none"], LAMBDA a :
        IF Len(a.works) < a.batch_size THEN [run |-> a, store |-> st]
        ELSE Bind(SaveAll(st, a.works, a.text_units, a.relations, fault), LAMBDA s :
            [run |-> IF s.exc = "none"
                     THEN [a EXCEPT !.batch_count = @ + 1,
                                    !.works = <<>>, !.text_units = <<>>,
                                    !.relations = <<>>]
                     ELSE [a EXCEPT !.batch_count = @ + 1, !.failed = @ + 1,
                                    !.saved = s.exc],
             store |-> Refusals(st, s)])))

GetDataParallel ==
    /\ run.state = "collecting" /\ run.parallel /\ run.pending # {}
    /\ \E id \in run.pending, o \in Outcomes, fault \in Faults :
          /\ run' = GetDataParallelIteration(run, store, id, o, fault).run
          /\ store' = GetDataParallelIteration(run, store, id, o, fault).store
    /\ UNCHANGED <<celex_id, remote, res, child, fetches, last>>

\* the final flush (lines 412-420), which no try surrounds: an error of a
\* save leaves _get_data_parallel, and run() logs it and raises it again
\* (lines 230-235)
Flush(r, st, fault) ==
    Bind(SaveAll(st, r.works, r.text_units, r.relations, fault), LAMBDA s :
        [run |-> [r EXCEPT !.state = IF s.exc = "none" THEN "returned" ELSE "raised",
                           !.exc = s.exc,
                           !.batch_count = IF r.works # <<>> THEN @ + 1 ELSE @],
         store |-> Refusals(st, s)])

GetDataParallelFlush ==
    /\ run.state = "collecting" /\ run.parallel /\ run.pending = {}
    /\ \E fault \in Faults :
          /\ run' = Flush(run, store, fault).run
          /\ store' = Flush(run, store, fault).store
    /\ UNCHANGED <<celex_id, remote, res, child, fetches, last>>

InitPipeline ==
    /\ Constructed
    /\ celex_id = Regulation
    /\ remote = [r \in Resolvers |-> Offline]

NextPipeline ==
    \/ StartRun
    \/ GetData
    \/ GetDataReturn
    \/ GetDataParallel
    \/ GetDataParallelFlush

SpecPipeline == InitPipeline /\ [][NextPipeline]_vars

\* C28: a document whose adoption date resolved to None is persisted all the
\* same: unless the database refused a statement for a reason of its own,
\* the iteration of _get_data that processed it saved its Work row, with the
\* absent date, and did not count the document as failed.
C28_AbsentDateIsPersisted ==
    (/\ run.state # "none"
     /\ ~ run.parallel
     /\ run.result # NoneV
     /\ run.result.date_adopted = NoneV
     /\ run.saved # "OperationalError")
    => /\ run.saved = "none"
       /\ \E i \in 1..Len(store.works) : store.works[i] = run.result

\* the documents in the lists of _get_data_parallel whose results arrived
\* after a batch save had failed: a save is tried as soon as batch_size works
\* are listed, so these are the works listed beyond the first batch_size
ArrivedAfterFailure ==
    {run.works[i].celex_id : i \in (run.batch_size + 1)..Len(run.works)}

\* C29: in parallel mode a failed batch save is confined to its batch: when
\* the loop has ended with the last batch save failed, the run ends without
\* raising the storage error, and every document whose result arrived after
\* the failure is in the works table once the final flush is done.
C29_BatchFailureIsConfined ==
    [][(/\ run.state = "collecting"
        /\ run.parallel
        /\ run.saved # "none"
        /\ run'.state # "collecting")
       => /\ run'.state = "returned"
          /\ ArrivedAfterFailure \subseteq Keys(store'.works)]_vars

\* C22: in one pipeline run no two resolver objects are constructed for the
\* same identifier, the resolvers of the original acts of consolidated
\* texts included.
C22_OneResolverPerIdentifier ==
    run.state # "none" =>
        \A i, j \in 1..Len(run.resolvers) :
            i # j => run.resolvers[i] # run.resolvers[j]

====
